---- MODULE Spec2Model ----
(***************************************************************************)
(* A model of the document research backend: the vector store and its      *)
(* metadata registry (backend/app/services/vector_store.py), the upload    *)
(* and query handlers (backend/app/main.py, backend/app/api/routes.py),    *)
(* the per-document QA stage and the synthesizer                            *)
(* (backend/app/services/llm_service.py) and the theme identifier          *)
(* (backend/app/services/theme_identifier.py).                             *)
(*                                                                         *)
(* Texts are sequences of one-character strings.  A Python dict is a       *)
(* function whose domain is its key set.  The generative model, the index  *)
(* engine and the file system are collaborators: their replies and faults  *)
(* are inputs drawn with \E.                                               *)
(***************************************************************************)
EXTENDS Integers, Sequences, FiniteSets, TLC

VARIABLES
    store,      \* vector_store.py globals and what they persist: meta, file, index
    up,         \* the process is running (initialize_vector_store did not raise)
    added,      \* history: ids for which add_document returned True
    faulted,    \* history: some add_document call raised
    restarted,  \* history: the process has been restarted
    readBack,   \* history: a registry read ran after an add and before the restart
    lastOp,     \* history: the operation that ran last (of an ingestion: its kind)
    listed,     \* result of the last get_all_documents / get_document_by_id
    t_pc,       \* concurrent ingestion: each thread's position in add_document
    t_buf,      \* concurrent ingestion: each thread's unflushed file buffer
    issued,     \* upload: number of document ids generated so far
    batch,      \* upload: the files of the last batch
    upl,        \* upload: the last batch's response (documents, errors, status)
    call,       \* query stages: the last stage function called, its inputs and result
    q,          \* query endpoint: the request being handled and its response
    lastDoc,    \* re-ingestion: the doc_details of the last add_document call
    ingested    \* re-ingestion: by id, the doc_details of the last call that returned

storeVars == <<store, up, added, faulted, restarted, readBack, lastOp, listed>>
concVars == <<t_pc, t_buf>>
uploadVars == <<issued, batch, upl>>
queryVars == <<call, q>>
histVars == <<lastDoc, ingested>>
vars == <<storeVars, concVars, uploadVars, queryVars, histVars>>

----
\* Bounds of the model.

\* Number of distinct document ids.
NumDocs == 2
\* Longest batch of one upload request.
MaxBatch == 2
\* Longest text given to _split_text on its own.
MaxLen == 5
\* Largest chunk_size and largest overlap given to _split_text on its own.
MaxChunkSize == 3
MaxOverlap == 2

DocIds == 1..NumDocs

\* Program constants.
CHUNK_SIZE == 1000
CHUNK_OVERLAP == 200

NL == "\n"
SP == " "

\* Document texts the ingestion inputs are drawn from ("" and "ab c\nd").
SampleTexts == { <<>>, <<"a", "b", SP, "c", NL, "d">> }

\* A text of two paragraphs that do not fit one chunk together.
TwoParagraphs ==
    [i \in 1..(CHUNK_SIZE \div 2 + 100) |-> "x"] \o <<NL>>
        \o [i \in 1..(CHUNK_SIZE \div 2 + 100) |-> "y"]

\* The texts of the documents given to add_document.
IngestTexts == SampleTexts \cup {TwoParagraphs}

----
\* Python helpers.

\* str.find(sep) + 1: the position of the first sep in s, 0 when there is none.
FirstIndex(s, sep) ==
    LET at == {i \in 1..Len(s) : s[i] = sep}
    IN IF at = {} THEN 0 ELSE CHOOSE i \in at : \A j \in at : i <= j

\* str.split(sep): every occurrence of sep separates, empty parts are kept.
RECURSIVE StrSplit(_, _)
StrSplit(s, sep) ==
    LET i == FirstIndex(s, sep)
    IN IF i = 0 THEN <<s>>
       ELSE <<SubSeq(s, 1, i - 1)>> \o StrSplit(SubSeq(s, i + 1, Len(s)), sep)

\* s[-n:] for n > 0.
LastChars(s, n) == IF Len(s) > n THEN SubSeq(s, Len(s) - n + 1, Len(s)) ELSE s

\* d[k] = v on a dict.
DictPut(d, k, v) == [x \in (DOMAIN d) \cup {k} |-> IF x = k THEN v ELSE d[x]]

EmptyDict == [x \in {} |-> 0]

----
\* _split_text (vector_store.py:50-120).

\* A flush that closes the running chunk and forgets current_paragraph.
FlushParagraph_Dropping(st, chunk_size) ==
    IF Len(st.current_chunk) + Len(st.current_paragraph) + 1 > chunk_size
    THEN [st EXCEPT !.chunks = Append(@, st.current_chunk), !.current_chunk = <<>>]
    ELSE [st EXCEPT !.current_chunk =
            IF @ # <<>> THEN @ \o <<SP>> \o st.current_paragraph
            ELSE st.current_paragraph]

\* Lines 79-83 and 90-94: move current_paragraph into the running chunk.
FlushParagraph(st, chunk_size) ==
    IF Len(st.current_chunk) + Len(st.current_paragraph) + 1 > chunk_size
    THEN [st EXCEPT !.chunks = Append(@, st.current_chunk),
                    !.current_chunk = st.current_paragraph]
    ELSE [st EXCEPT !.current_chunk =
            IF @ # <<>> THEN @ \o <<SP>> \o st.current_paragraph
            ELSE st.current_paragraph]

\* Lines 76-86: the loop over the words of a long paragraph.
RECURSIVE SplitWords(_, _, _)
SplitWords(words, st, chunk_size) ==
    IF words = <<>> THEN st
    ELSE LET word == Head(words) IN
         IF Len(st.current_paragraph) + Len(word) + 1 > chunk_size
         THEN SplitWords(Tail(words),
                         [FlushParagraph(st, chunk_size)
                             EXCEPT !.current_paragraph = word],
                         chunk_size)
         ELSE SplitWords(Tail(words),
                         [st EXCEPT !.current_paragraph =
                             IF @ # <<>> THEN @ \o <<SP>> \o word ELSE word],
                         chunk_size)

\* An iteration that packs every paragraph whole, however long.
SplitParagraph_Whole(paragraph, st, chunk_size) ==
    IF Len(st.current_chunk) + Len(paragraph) + 1 > chunk_size
    THEN [st EXCEPT !.chunks = Append(@, st.current_chunk),
                    !.current_chunk = paragraph]
    ELSE [st EXCEPT !.current_chunk =
            IF @ # <<>> THEN @ \o <<NL>> \o paragraph ELSE paragraph]

\* Lines 72-101: one iteration of the loop over the paragraphs.
SplitParagraph(paragraph, st, chunk_size) ==
    IF Len(paragraph) > chunk_size
    THEN LET w == SplitWords(StrSplit(paragraph, SP),
                             [st EXCEPT !.current_paragraph = <<>>], chunk_size)
         IN IF w.current_paragraph # <<>> THEN FlushParagraph(w, chunk_size) ELSE w
    ELSE IF Len(st.current_chunk) + Len(paragraph) + 1 > chunk_size
         THEN [st EXCEPT !.chunks = Append(@, st.current_chunk),
                         !.current_chunk = paragraph]
         ELSE [st EXCEPT !.current_chunk =
                 IF @ # <<>> THEN @ \o <<NL>> \o paragraph ELSE paragraph]

RECURSIVE SplitParagraphs(_, _, _)
SplitParagraphs(paragraphs, st, chunk_size) ==
    IF paragraphs = <<>> THEN st
    ELSE SplitParagraphs(Tail(paragraphs),
                         SplitParagraph(Head(paragraphs), st, chunk_size),
                         chunk_size)

\* Lines 66-105: the chunks before the overlap is applied.
RawChunks(text, chunk_size) ==
    LET st == SplitParagraphs(StrSplit(text, NL),
                  [chunks |-> <<>>, current_chunk |-> <<>>, current_paragraph |-> <<>>],
                  chunk_size)
    IN IF st.current_chunk # <<>> THEN Append(st.chunks, st.current_chunk)
       ELSE st.chunks

\* Lines 108-118: chunk i > 0 is prefixed with the tail of chunk i-1.
ApplyOverlap(chunks, overlap) ==
    IF overlap > 0 /\ Len(chunks) > 1
    THEN [i \in 1..Len(chunks) |->
            IF i = 1 THEN chunks[i]
            ELSE LastChars(chunks[i - 1], overlap) \o chunks[i]]
    ELSE chunks

split_text(text, chunk_size, overlap) ==
    IF text = <<>> THEN <<>>
    ELSE ApplyOverlap(RawChunks(text, chunk_size), overlap)

----
\* The vector store: the metadata registry, its file, and the chunk index.

\* The registry entry of a document (vector_store.py:143-149).
MetaEntry(doc) ==
    [id |-> doc.id, filename |-> doc.filename, page_count |-> doc.page_count,
     processed_path |-> doc.processed_path]

\* A metadata file that does not exist.
NoFile == [exists |-> FALSE, valid |-> FALSE, data |-> EmptyDict, size |-> 0]

\* Length of json.dump's output for a registry: grows with the number of entries.
DumpSize(registry) == 1 + Cardinality(DOMAIN registry)

\* vector_store.py:143: _documents_metadata[doc_id] = {...}
StoreMetadata(s, doc) == [s EXCEPT !.meta = DictPut(@, doc.id, MetaEntry(doc))]

\* vector_store.py:152: open(METADATA_FILE, 'w') truncates the file to zero length.
OpenMetadataFile(s) ==
    [s EXCEPT !.file = [exists |-> TRUE, valid |-> FALSE, data |-> EmptyDict, size |-> 0]]

\* vector_store.py:153: json.dump serialises the registry it finds in the global
\* into the file object's buffer.
DumpMetadata(s) == s.meta

\* vector_store.py:152-153, leaving the with block: the buffer is written at offset 0
\* of the file. Bytes of a longer content written meanwhile through another handle
\* stay behind the written ones, and the file no longer parses.
CloseMetadataFile(s, buf) ==
    IF DumpSize(buf) >= s.file.size
    THEN [s EXCEPT !.file = [exists |-> TRUE, valid |-> TRUE, data |-> buf,
                             size |-> DumpSize(buf)]]
    ELSE [s EXCEPT !.file = [exists |-> TRUE, valid |-> FALSE, data |-> EmptyDict,
                             size |-> s.file.size]]

\* Chunks without the substitution of line 159-160.
DocumentChunks_NoSubstitute(doc) == split_text(doc.text, CHUNK_SIZE, CHUNK_OVERLAP)

\* _split_text of the ingestion texts with the configured sizes, computed once.
IngestChunks == [t \in IngestTexts |-> split_text(t, CHUNK_SIZE, CHUNK_OVERLAP)]

\* vector_store.py:156-160: the chunks of the text, one empty chunk when there is none.
DocumentChunks(doc) ==
    LET chunks == IF doc.text \in IngestTexts THEN IngestChunks[doc.text]
                  ELSE split_text(doc.text, CHUNK_SIZE, CHUNK_OVERLAP)
    IN IF chunks = <<>> THEN << <<>> >> ELSE chunks

\* The ids of the index entries of a document.
IndexIdsOf(index, d) == {c.idx : c \in {x \in index : x.doc = d}}

\* An index that stores every chunk it is given under a fresh id.
CollectionAdd_Appending(s, doc, chunks) ==
    [s EXCEPT !.index = @ \cup
        {[doc |-> doc.id, idx |-> Cardinality(IndexIdsOf(s.index, doc.id)) + i - 1,
          text |-> chunks[i]] : i \in 1..Len(chunks)}]

\* vector_store.py:165-181: _collection.add(ids, documents, metadatas). The index
\* engine keeps an entry whose id ("<doc_id>_chunk_<i>") it already holds.
CollectionAdd(s, doc, chunks) ==
    [s EXCEPT !.index = @ \cup
        {[doc |-> doc.id, idx |-> i - 1, text |-> chunks[i]] :
            i \in {j \in 1..Len(chunks) : (j - 1) \notin IndexIdsOf(s.index, doc.id)}}]

\* Where add_document can raise: opening the metadata file, json.dump, _split_text,
\* _collection.add.
AddFaults == {"none", "open", "dump", "split", "add"}

\* add_document (vector_store.py:123-188). Every exception is logged and re-raised
\* (lines 186-188); nothing written before it is undone.
add_document(s, doc, fault) ==
    LET s1 == StoreMetadata(s, doc)
        s2 == OpenMetadataFile(s1)
        s3 == CloseMetadataFile(s2, DumpMetadata(s2))
        s4 == CollectionAdd(s3, doc, DocumentChunks(doc))
    IN CASE fault = "open"  -> [store |-> s1, raised |-> TRUE]
         [] fault = "dump"  -> [store |-> s2, raised |-> TRUE]
         [] fault = "split" -> [store |-> s3, raised |-> TRUE]
         [] fault = "add"   -> [store |-> s3, raised |-> TRUE]
         [] OTHER           -> [store |-> s4, raised |-> FALSE]

\* A read that resets the registry without loading the file.
LoadMetadata_NotLoaded(s) == EmptyDict

\* vector_store.py:264-269 and 334-340: json.load of the metadata file; a file that
\* does not parse leaves the registry empty.
LoadMetadata(s) ==
    IF s.file.exists /\ s.file.valid THEN s.file.data ELSE EmptyDict

\* vector_store.py:261 and 331: hasattr(globals(), '_documents_metadata') asks the
\* dict that globals() returns for an attribute, which it never has.
MetadataMissing(s) == TRUE

\* vector_store.py:260-269 and 330-340: the registry is reset and read from the file.
ReloadMetadata(s) ==
    IF MetadataMissing(s) THEN [s EXCEPT !.meta = LoadMetadata(s)] ELSE s

\* get_all_documents (vector_store.py:250-274).
get_all_documents(s) ==
    LET s1 == ReloadMetadata(s)
    IN [store |-> s1, result |-> {s1.meta[k] : k \in DOMAIN s1.meta}]

\* A lookup that returns the entry of some document when the id has none.
get_document_by_id_Any(s, doc_id) ==
    LET s1 == ReloadMetadata(s)
    IN [store |-> s1,
        result |-> IF doc_id \in DOMAIN s1.meta THEN {s1.meta[doc_id]}
                   ELSE IF DOMAIN s1.meta # {}
                   THEN {s1.meta[CHOOSE k \in DOMAIN s1.meta : TRUE]}
                   ELSE {}]

\* get_document_by_id (vector_store.py:318-345); no entry is the empty set.
get_document_by_id(s, doc_id) ==
    LET s1 == ReloadMetadata(s)
    IN [store |-> s1,
        result |-> IF doc_id \in DOMAIN s1.meta THEN {s1.meta[doc_id]} ELSE {}]

\* initialize_vector_store (vector_store.py:17-47) in a fresh process: the module
\* global starts as {} (line 15) and json.load's exception is re-raised.
initialize_vector_store(s) ==
    IF ~s.file.exists THEN [store |-> [s EXCEPT !.meta = EmptyDict], raised |-> FALSE]
    ELSE IF s.file.valid THEN [store |-> [s EXCEPT !.meta = s.file.data], raised |-> FALSE]
    ELSE [store |-> [s EXCEPT !.meta = EmptyDict], raised |-> TRUE]

----
\* The documents add_document is called with.
FileNames == {[stem |-> "a", ext |-> "txt"]}

\* processed_path: the id of the document whose extracted-text artifact the path
\* names, 0 for no path.
DocDetails ==
    [id : DocIds, filename : FileNames, text : SampleTexts, page_count : {1},
     processed_path : {0}]

\* processed: the extracted-text artifacts in the processed folder, by document id.
EmptyStore == [meta |-> EmptyDict, file |-> NoFile, index |-> {}, processed |-> EmptyDict]

NoResult == [op |-> "none", docs |-> {}]

StoreInit ==
    /\ store = EmptyStore
    /\ up = TRUE
    /\ added = {}
    /\ faulted = FALSE
    /\ restarted = FALSE
    /\ readBack = FALSE
    /\ lastOp = "init"
    /\ listed = NoResult

ConcIdle ==
    /\ t_pc = <<>>
    /\ t_buf = <<>>

UploadIdle ==
    /\ issued = 0
    /\ batch = <<>>
    /\ upl = [documents |-> <<>>, errors |-> <<>>, status |-> 0]

\* No add_document call has been made.
NoDoc == [id |-> 0]

\* No stage function is being called and no query is being handled.
NoCall == [fn |-> "none"]

IdleQuery ==
    [pc |-> "idle", endpoint |-> "main", has_query |-> FALSE, selected |-> <<>>,
     queried |-> <<>>, todo |-> <<>>, document_responses |-> <<>>, themes |-> <<>>,
     stages |-> <<>>, raised_in |-> "none", status |-> 0, body |-> EmptyDict]

QueryIdle ==
    /\ call = NoCall
    /\ q = IdleQuery
    /\ lastDoc = NoDoc
    /\ ingested = EmptyDict

\* A call of add_document outside the upload handler, with any id.
AddDocument ==
    \E doc \in DocDetails, fault \in AddFaults :
        LET r == add_document(store, doc, fault) IN
        /\ up
        /\ store' = r.store
        /\ added' = IF r.raised THEN added ELSE added \cup {doc.id}
        /\ faulted' = (faulted \/ r.raised)
        /\ lastOp' = IF r.raised THEN "add_document_raised" ELSE "add_document"
        /\ UNCHANGED <<up, restarted, readBack, listed, concVars, uploadVars, queryVars, histVars>>

\* GET /documents (main.py:100-108).
GetAllDocuments ==
    LET r == get_all_documents(store) IN
    /\ up
    /\ store' = r.store
    /\ listed' = [op |-> "get_all_documents", docs |-> {m.id : m \in r.result}]
    /\ lastOp' = "get_all_documents"
    /\ readBack' = (readBack \/ (added # {} /\ ~restarted))
    /\ UNCHANGED <<up, added, faulted, restarted, concVars, uploadVars, queryVars, histVars>>

GetDocumentById ==
    \E d \in DocIds :
        LET r == get_document_by_id(store, d) IN
        /\ up
        /\ store' = r.store
        /\ listed' = [op |-> "get_document_by_id", docs |-> {m.id : m \in r.result}]
        /\ lastOp' = "get_document_by_id"
        /\ readBack' = (readBack \/ (added # {} /\ ~restarted))
        /\ UNCHANGED <<up, added, faulted, restarted, concVars, uploadVars, queryVars, histVars>>

\* The process ends and main.py:42 runs initialize_vector_store in a new one. The
\* index and the metadata file are on disk and survive.
Restart ==
    LET r == initialize_vector_store(store) IN
    /\ store' = r.store
    /\ up' = ~r.raised
    /\ restarted' = TRUE
    /\ lastOp' = "restart"
    /\ listed' = NoResult
    /\ UNCHANGED <<added, faulted, readBack, concVars, uploadVars, queryVars, histVars>>

Init == StoreInit /\ ConcIdle /\ UploadIdle /\ QueryIdle

Next ==
    \/ AddDocument
    \/ GetAllDocuments
    \/ GetDocumentById
    \/ Restart

Spec == Init /\ [][Next]_vars

----
\* Re-ingestion: add_document called repeatedly, also with ids the store already
\* holds, with texts of no, one and two chunks.

\* The documents of the re-ingestion calls.
IngestDetails ==
    [id : DocIds, filename : FileNames, text : IngestTexts, page_count : {1},
     processed_path : {0}]

\* One call of add_document (vector_store.py:123-188) that returns True; the calls
\* that raise are those of AddDocument.
Ingest ==
    \E doc \in IngestDetails :
        LET r == add_document(store, doc, "none") IN
        /\ store' = r.store
        /\ lastOp' = IF doc.id \notin DOMAIN ingested THEN "ingest_new"
                      ELSE IF ingested[doc.id] = doc THEN "ingest_same"
                      ELSE "ingest_changed"
        /\ lastDoc' = doc
        /\ ingested' = DictPut(ingested, doc.id, doc)
        /\ UNCHANGED <<up, added, faulted, restarted, readBack, listed, concVars,
                       uploadVars, queryVars>>

IngestInit == Init

IngestNext ==
    \/ Ingest

SpecIngest == IngestInit /\ [][IngestNext]_vars

----
\* _split_text called on its own, with any text, chunk_size and overlap.

\* Two letters and the two separators the function splits on.
SplitAlphabet == {"a", "b", SP, NL}

SplitTexts == UNION {[1..n -> SplitAlphabet] : n \in 0..MaxLen}

SplitSizes == 1..MaxChunkSize

SplitOverlaps == 0..MaxOverlap

\* _split_text(text, chunk_size, overlap) (vector_store.py:50-120) is called.
CallSplit ==
    /\ call = NoCall
    /\ \E text \in SplitTexts, chunk_size \in SplitSizes, overlap \in SplitOverlaps :
           call' = [fn |-> "_split_text", text |-> text, chunk_size |-> chunk_size,
                    overlap |-> overlap, out |-> split_text(text, chunk_size, overlap)]
    /\ UNCHANGED <<storeVars, concVars, uploadVars, q, histVars>>

\* The caller is done with the chunks.
SplitReturn ==
    /\ call # NoCall
    /\ call' = NoCall
    /\ UNCHANGED <<storeVars, concVars, uploadVars, q, histVars>>

SplitInit == Init

SplitNext == CallSplit \/ SplitReturn

SpecSplit == SplitInit /\ [][SplitNext]_vars

----
\* Concurrent ingestion: the development server handles each request in its own
\* thread, so two uploads run add_document at the same time. Thread t adds
\* document t; a thread may be suspended between any two statements.

Threads == DocIds

ThreadDoc(t) ==
    [id |-> t, filename |-> [stem |-> "a", ext |-> "txt"],
     text |-> <<"a", "b", SP, "c", NL, "d">>, page_count |-> 1, processed_path |-> 0]

\* The stores a sequential run has produced before the two requests arrive.
ConcStores ==
    {EmptyStore} \cup {add_document(EmptyStore, doc, "none").store : doc \in DocDetails}

ConcInit ==
    /\ store \in ConcStores
    /\ up = TRUE
    /\ added = {}
    /\ faulted = FALSE
    /\ restarted = FALSE
    /\ readBack = FALSE
    /\ lastOp = "init"
    /\ listed = NoResult
    /\ t_pc = [t \in Threads |-> "store"]
    /\ t_buf = [t \in Threads |-> EmptyDict]
    /\ UploadIdle
    /\ QueryIdle

concFrame == <<up, faulted, restarted, readBack, lastOp, listed, uploadVars, queryVars, histVars>>

\* vector_store.py:143
T_StoreMetadata(t) ==
    /\ t_pc[t] = "store"
    /\ store' = StoreMetadata(store, ThreadDoc(t))
    /\ t_pc' = [t_pc EXCEPT ![t] = "open"]
    /\ UNCHANGED <<t_buf, added, concFrame>>

\* vector_store.py:152, entering the with block
T_Open(t) ==
    /\ t_pc[t] = "open"
    /\ store' = OpenMetadataFile(store)
    /\ t_pc' = [t_pc EXCEPT ![t] = "dump"]
    /\ UNCHANGED <<t_buf, added, concFrame>>

\* vector_store.py:153
T_Dump(t) ==
    /\ t_pc[t] = "dump"
    /\ t_buf' = [t_buf EXCEPT ![t] = DumpMetadata(store)]
    /\ t_pc' = [t_pc EXCEPT ![t] = "close"]
    /\ UNCHANGED <<store, added, concFrame>>

\* vector_store.py:152-153, leaving the with block
T_Close(t) ==
    /\ t_pc[t] = "close"
    /\ store' = CloseMetadataFile(store, t_buf[t])
    /\ t_pc' = [t_pc EXCEPT ![t] = "add"]
    /\ UNCHANGED <<t_buf, added, concFrame>>

\* vector_store.py:156-184
T_CollectionAdd(t) ==
    /\ t_pc[t] = "add"
    /\ store' = CollectionAdd(store, ThreadDoc(t), DocumentChunks(ThreadDoc(t)))
    /\ t_pc' = [t_pc EXCEPT ![t] = "done"]
    /\ added' = added \cup {t}
    /\ UNCHANGED <<t_buf, concFrame>>

ConcNext ==
    \E t \in Threads :
        \/ T_StoreMetadata(t)
        \/ T_Open(t)
        \/ T_Dump(t)
        \/ T_Close(t)
        \/ T_CollectionAdd(t)

SpecConc == ConcInit /\ [][ConcNext]_vars

----
\* A registry read concurrent with an ingestion: one request thread runs
\* add_document while another runs get_all_documents; either may be suspended
\* between any two statements.

\* The thread that runs add_document(ThreadDoc(Writer)).
Writer == 1
\* The thread that runs get_all_documents().
Reader == 2

\* vector_store.py:261-262: the registry is found missing and set to {}.
ReaderReset(s) == IF MetadataMissing(s) THEN [s EXCEPT !.meta = EmptyDict] ELSE s

\* vector_store.py:261-262
R_Reset ==
    /\ t_pc[Reader] = "reset"
    /\ store' = ReaderReset(store)
    /\ t_pc' = [t_pc EXCEPT ![Reader] = IF store' = store /\ ~MetadataMissing(store)
                                        THEN "return" ELSE "load"]
    /\ UNCHANGED <<t_buf, added, concFrame>>

\* vector_store.py:264-269: the file is read in one piece; a file that is missing
\* or does not parse (it was truncated by an open for writing) leaves the registry
\* as the reset made it.
R_Load ==
    /\ t_pc[Reader] = "load"
    /\ store' = IF store.file.exists /\ store.file.valid
                THEN [store EXCEPT !.meta = store.file.data] ELSE store
    /\ t_pc' = [t_pc EXCEPT ![Reader] = "return"]
    /\ UNCHANGED <<t_buf, added, concFrame>>

\* vector_store.py:271
R_Return ==
    /\ t_pc[Reader] = "return"
    /\ listed' = [op |-> "get_all_documents", docs |-> DOMAIN store.meta]
    /\ t_pc' = [t_pc EXCEPT ![Reader] = "done"]
    /\ UNCHANGED <<store, t_buf, added, up, faulted, restarted, readBack, lastOp,
                   uploadVars, queryVars, histVars>>

\* The registry and the file are as earlier add_document calls that returned left
\* them; added holds the ids of those calls.
ReadWriteInit ==
    /\ store \in ConcStores
    /\ up = TRUE
    /\ added = DOMAIN store.meta
    /\ faulted = FALSE
    /\ restarted = FALSE
    /\ readBack = FALSE
    /\ lastOp = "init"
    /\ listed = NoResult
    /\ t_pc = [t \in {Writer, Reader} |-> IF t = Writer THEN "store" ELSE "reset"]
    /\ t_buf = [t \in {Writer, Reader} |-> EmptyDict]
    /\ UploadIdle
    /\ QueryIdle

ReadWriteNext ==
    \/ T_StoreMetadata(Writer)
    \/ T_Open(Writer)
    \/ T_Dump(Writer)
    \/ T_Close(Writer)
    \/ T_CollectionAdd(Writer)
    \/ R_Reset
    \/ R_Load
    \/ R_Return

SpecReadWrite == ReadWriteInit /\ [][ReadWriteNext]_vars

----
\* Text extraction page by page (services/document_processor.py and
\* services/ocr_service.py), with the files it creates and removes on the way.

\* Most pages of a PDF.
MaxPages == 2

\* A path in the upload folder: the uploaded file itself (page 0) or the raster
\* image "<file_path>_page_<n>.png" of a page (pages are counted from 1 here).
ImagePath(page) ==
    [dir |-> "uploads", kind |-> IF page = 0 THEN "upload" ELSE "raster", page |-> page]

\* os.path.basename
basename(path) == [kind |-> path.kind, page |-> path.page]

NoBase == [kind |-> "none", page |-> 0]

\* A text: what it is, and the file name it carries, if any.
Text(what, base) == [what |-> what, base |-> base]

\* ocr_service.py:28: f"[OCR Text Extraction from {os.path.basename(image_path)}]"
Placeholder(image_path) == Text("placeholder", basename(image_path))

\* ocr_service.py:32 and 78: f"OCR processing failed: {str(e)}"
OcrFailed == Text("ocr_failed", NoBase)

\* str.strip() leaves nothing of the text.
IsBlank(text) == text.what = "blank"

\* The files of a run: those that exist, and the creations and removals in order.
NoFiles == [files |-> {}, log |-> <<>>]

CreateFile(fs, f) ==
    [files |-> fs.files \cup {f}, log |-> Append(fs.log, [ev |-> "create", f |-> f])]

RemoveFile(fs, f) ==
    [files |-> fs.files \ {f}, log |-> Append(fs.log, [ev |-> "remove", f |-> f])]

\* The temporary files of the recognition of an image (ocr_service.py:54-59).
TmpTxt(image_path) == [kind |-> "tmp_txt", page |-> image_path.page]
TmpPng(image_path) == [kind |-> "tmp_png", page |-> image_path.page]

\* perform_tesseract_ocr (ocr_service.py:35-78). Image.open can raise (line 47)
\* before a temporary file exists; img.save (60) and the engine's run (63) raise
\* after both exist; the unlinks (71-72) are on the path that read the output.
perform_tesseract_ocr(fs, image_path, env) ==
    LET fs1 == CreateFile(CreateFile(fs, TmpTxt(image_path)), TmpPng(image_path)) IN
    CASE env.recognition = "open_fails" -> [fs |-> fs, text |-> OcrFailed]
      [] env.recognition \in {"save_fails", "run_fails"} -> [fs |-> fs1, text |-> OcrFailed]
      [] OTHER ->
            [fs |-> RemoveFile(RemoveFile(fs1, TmpPng(image_path)), TmpTxt(image_path)),
             text |-> Text("recognized", basename(image_path))]

\* perform_ocr (ocr_service.py:10-32). subprocess.run(['tesseract', '--version'],
\* check=True) raises FileNotFoundError when there is no such binary ("missing"),
\* CalledProcessError when it exits with an error ("fails"), and PermissionError
\* when the file may not be executed ("denied"); line 26 catches the first two,
\* line 30 the third.
perform_ocr(fs, image_path, env) ==
    CASE env.engine = "ok" -> perform_tesseract_ocr(fs, image_path, env)
      [] env.engine \in {"missing", "fails"} -> [fs |-> fs, text |-> Placeholder(image_path)]
      [] OTHER -> [fs |-> fs, text |-> OcrFailed]

\* process_image (document_processor.py:186-201): perform_ocr does not raise.
process_image(fs, env) ==
    LET r == perform_ocr(fs, ImagePath(0), env)
    IN [raised |-> FALSE, error |-> <<>>, fs |-> r.fs, text |-> <<r.text>>, page_count |-> 1]

\* document_processor.py:162-176: the pages from page_num on. get_pixmap raises
\* at page file.render_fail (0: at none).
RECURSIVE ScanPages(_, _, _, _, _)
ScanPages(fs, file, env, page_num, page_texts) ==
    IF page_num > file.pages
    THEN [raised |-> FALSE, error |-> <<>>, fs |-> fs, text |-> page_texts,
          page_texts |-> page_texts, page_count |-> file.pages]
    ELSE IF file.render_fail = page_num
    THEN [raised |-> TRUE, error |-> <<"Could not perform OCR on PDF", "get_pixmap">>,
          fs |-> fs, text |-> <<>>, page_texts |-> <<>>, page_count |-> 0]
    ELSE LET img_path == ImagePath(page_num)
             r == perform_ocr(CreateFile(fs, basename(img_path)), img_path, env)
         IN ScanPages(RemoveFile(r.fs, basename(img_path)), file, env, page_num + 1,
                      Append(page_texts, r.text))

\* process_scanned_pdf (document_processor.py:144-183)
process_scanned_pdf(fs, file, env) == ScanPages(fs, file, env, 1, <<>>)

\* The texts of the pages as a library returns them: present or only whitespace.
PageTexts(yield, by) ==
    [k \in 1..Len(yield) |-> IF yield[k] = "text" THEN Text(by, [kind |-> "page", page |-> k])
                             ELSE Text("blank", NoBase)]

\* not full_text.strip(), full_text being each page's text followed by "\n\n"
NoText(page_texts) == \A k \in 1..Len(page_texts) : IsBlank(page_texts[k])

\* A result of the extraction with the stages that ran before it.
After(stages, r) == [r EXCEPT !.stages = stages \o @]

Extracted(fs, page_texts, stage) ==
    [raised |-> FALSE, error |-> <<>>, fs |-> fs, text |-> page_texts,
     page_texts |-> page_texts, page_count |-> Len(page_texts), stages |-> <<stage>>]

\* document_processor.py:181-183 as seen by the caller, with the stage noted.
Scanned(fs, file, env) == process_scanned_pdf(fs, file, env) @@ [stages |-> <<"ocr">>]

\* document_processor.py:119-141: PyPDF2. Every exception under the try, the one
\* of process_scanned_pdf too, becomes "Could not extract text from PDF: <cause>".
process_pdf_fallback(fs, file, env) ==
    IF file.secondary_raises
    THEN [raised |-> TRUE, error |-> <<"Could not extract text from PDF", "PdfReader">>,
          fs |-> fs, text |-> <<>>, page_texts |-> <<>>, page_count |-> 0,
          stages |-> <<"secondary">>]
    ELSE LET page_texts == PageTexts(file.secondary, "secondary") IN
         IF NoText(page_texts)
         THEN LET r == Scanned(fs, file, env) IN
              IF r.raised
              THEN After(<<"secondary">>,
                         [r EXCEPT !.error = <<"Could not extract text from PDF">> \o @])
              ELSE After(<<"secondary">>, r)
         ELSE Extracted(fs, page_texts, "secondary")

\* An extraction that asks the second library before it turns to recognition.
process_pdf_SecondaryFirst(fs, file, env) ==
    IF file.primary_raises \/ NoText(PageTexts(file.primary, "primary"))
    THEN After(<<"primary">>, process_pdf_fallback(fs, file, env))
    ELSE Extracted(fs, PageTexts(file.primary, "primary"), "primary")

\* process_pdf (document_processor.py:85-141). The return of line 112 is under the
\* try of line 95, so a ValueError of process_scanned_pdf is caught at line 116.
process_pdf(fs, file, env) ==
    IF file.primary_raises
    THEN After(<<"primary">>, process_pdf_fallback(fs, file, env))
    ELSE LET page_texts == PageTexts(file.primary, "primary") IN
         IF NoText(page_texts)
         THEN LET r == Scanned(fs, file, env) IN
              IF r.raised
              THEN After(<<"primary", "ocr">>, process_pdf_fallback(r.fs, file, env))
              ELSE After(<<"primary">>, r)
         ELSE Extracted(fs, page_texts, "primary")

\* The text that a text file holds.
FileContent == Text("content", NoBase)

\* document_processor.py:41 and 49: process_image returns no page texts, and
\* page_texts stays the empty list.
ImagePageTexts(r) == <<>>

\* process_document (document_processor.py:13-82), page by page: the details it
\* returns, the artifact it writes, and the files it leaves.
process_document_pages(file, env) ==
    LET r == CASE file.kind = "pdf" -> process_pdf(NoFiles, file, env)
               [] file.kind = "image" ->
                      LET i == process_image(NoFiles, env)
                      IN i @@ [page_texts |-> ImagePageTexts(i), stages |-> <<"ocr">>]
               [] file.kind = "text" -> Extracted(NoFiles, <<FileContent>>, "read")
               [] OTHER ->
                      [raised |-> TRUE, error |-> <<"Unsupported file type">>,
                       fs |-> NoFiles, text |-> <<>>, page_texts |-> <<>>,
                       page_count |-> 0, stages |-> <<>>]
        processed == [full_text |-> r.text, page_texts |-> r.page_texts,
                      page_count |-> r.page_count]
    IN IF r.raised
       THEN [raised |-> TRUE, error |-> r.error, fs |-> r.fs, stages |-> r.stages,
             artifact |-> <<>>, details |-> <<>>]
       ELSE [raised |-> FALSE, error |-> <<>>, fs |-> r.fs, stages |-> r.stages,
             artifact |-> <<processed>>,
             details |-> <<[text |-> r.text, page_texts |-> r.page_texts,
                            page_count |-> r.page_count]>>]

\* What a library yields for each page: text, or nothing but whitespace.
PageYields(pages) == [1..pages -> {"text", "blank"}]

\* The files given to process_document. What the libraries do matters for a PDF
\* only.
ExtractFiles ==
    {[kind |-> k, pages |-> 1, primary_raises |-> FALSE, primary |-> <<"text">>,
      secondary_raises |-> FALSE, secondary |-> <<"text">>, render_fail |-> 0] :
        k \in {"image", "text", "other"}}
    \cup UNION {[kind : {"pdf"}, pages : {n}, primary_raises : BOOLEAN,
                 primary : PageYields(n), secondary_raises : BOOLEAN,
                 secondary : PageYields(n), render_fail : 0..n] : n \in 0..MaxPages}

\* The engine as the probe finds it, and what its run on an image does.
ExtractEnvs ==
    [engine : {"ok", "missing", "fails", "denied"},
     recognition : {"ok", "open_fails", "save_fails", "run_fails"}]

\* process_document(file_path, doc_id, original_filename, processed_folder) is
\* called (main.py:77).
CallProcessDocument ==
    /\ call = NoCall
    /\ \E file \in ExtractFiles, env \in ExtractEnvs :
           call' = [fn |-> "process_document", file |-> file, env |-> env,
                    out |-> process_document_pages(file, env)]
    /\ UNCHANGED <<storeVars, concVars, uploadVars, q, histVars>>

\* perform_ocr(image_path) is called on an uploaded image or on a page's raster.
CallPerformOcr ==
    /\ call = NoCall
    /\ \E page \in 0..MaxPages, env \in ExtractEnvs :
           call' = [fn |-> "perform_ocr", image_path |-> ImagePath(page), env |-> env,
                    out |-> perform_ocr(NoFiles, ImagePath(page), env)]
    /\ UNCHANGED <<storeVars, concVars, uploadVars, q, histVars>>

\* The caller is done with the result.
ExtractReturn ==
    /\ call # NoCall
    /\ call' = NoCall
    /\ UNCHANGED <<storeVars, concVars, uploadVars, q, histVars>>

ExtractInit == Init

ExtractNext == CallProcessDocument \/ CallPerformOcr \/ ExtractReturn

SpecExtract == ExtractInit /\ [][ExtractNext]_vars

----
\* Upload (main.py:49-98; api/routes.py:20-69 is the same code).

\* config.py:32
ALLOWED_EXTENSIONS ==
    {"pdf", "png", "jpg", "jpeg", "txt", "md", "csv", "tiff", "bmp", "gif"}

\* A filename is its stem and the part after the last dot ("none": no dot).
\* The stem "é" has no ASCII character.
NoName == [stem |-> "", ext |-> "none"]

UploadNames ==
    { [stem |-> "a", ext |-> "txt"], [stem |-> "a", ext |-> "pdf"],
      [stem |-> "a", ext |-> "PDF"], [stem |-> "a", ext |-> "exe"],
      [stem |-> "a", ext |-> "none"], [stem |-> "é", ext |-> "txt"], NoName }

\* str.lower() on the extensions of the model.
Lower(e) == IF e = "PDF" THEN "pdf" ELSE e

\* allowed_file (core/file_utils.py:9-20)
allowed_file(filename) ==
    filename.ext # "none" /\ Lower(filename.ext) \in ALLOWED_EXTENSIONS

\* werkzeug's secure_filename: non-ASCII characters are dropped and leading dots
\* stripped, so "é.txt" becomes "txt".
secure_filename(filename) ==
    IF filename.stem = "é" THEN [stem |-> filename.ext, ext |-> "none"]
    ELSE filename

\* document_processor.py:58-75: the artifact is written and the details returned.
ProcessedDetails(s, f, doc_id, filename, page_count) ==
    [raised |-> FALSE,
     store |-> [s EXCEPT !.processed = DictPut(@, doc_id, f.text)],
     details |-> [id |-> doc_id, filename |-> filename, text |-> f.text,
                  page_count |-> page_count, processed_path |-> doc_id]]

\* process_document (services/document_processor.py:13-82). extract is what
\* process_pdf does with the file: return its text, or raise ValueError.
process_document(s, f, doc_id, filename) ==
    LET file_ext == Lower(filename.ext) IN
    IF file_ext = "pdf" THEN
        IF f.extract = "fail"
        THEN [raised |-> TRUE, store |-> s, error |-> "Could not extract text from PDF"]
        ELSE ProcessedDetails(s, f, doc_id, filename, 2)
    ELSE IF file_ext \in {"png", "jpg", "jpeg", "tiff", "bmp", "gif"} THEN
        ProcessedDetails(s, f, doc_id, filename, 1)
    ELSE IF file_ext \in {"txt", "md", "csv"} THEN
        ProcessedDetails(s, f, doc_id, filename, 1)
    ELSE [raised |-> TRUE, store |-> s, error |-> "Unsupported file type"]

\* main.py:64-92: one iteration of the loop over the files. st is the store, the
\* number of ids generated and the two lists; the fields file and id of a list
\* entry are ghosts: the file's position in the batch and the id generated for it
\* (0: none).
UploadOne(f, pos, st) ==
    IF f.filename # NoName /\ allowed_file(f.filename) THEN
        LET doc_id == st.issued + 1
            filename == secure_filename(f.filename)
            p == process_document(st.store, f, doc_id, filename)
            a == add_document(p.store, p.details, f.fault)
        IN IF p.raised THEN
               [st EXCEPT !.issued = doc_id,
                          !.errors = Append(@, [filename |-> f.filename,
                                                error |-> p.error,
                                                file |-> pos, id |-> doc_id])]
           ELSE IF a.raised THEN
               [st EXCEPT !.issued = doc_id,
                          !.store = a.store,
                          !.errors = Append(@, [filename |-> f.filename,
                                                error |-> f.fault,
                                                file |-> pos, id |-> doc_id])]
           ELSE
               [st EXCEPT !.issued = doc_id,
                          !.store = a.store,
                          !.documents = Append(@, [id |-> doc_id, filename |-> filename,
                                                   status |-> "Success",
                                                   pages |-> p.details.page_count,
                                                   file |-> pos])]
    ELSE IF f.filename # NoName THEN
        [st EXCEPT !.errors = Append(@, [filename |-> f.filename,
                                         error |-> "Invalid file type",
                                         file |-> pos, id |-> 0])]
    ELSE
        [st EXCEPT !.errors = Append(@, [filename |-> [stem |-> "Unknown", ext |-> "none"],
                                         error |-> "Invalid file",
                                         file |-> pos, id |-> 0])]

RECURSIVE UploadLoop(_, _, _)
UploadLoop(files, pos, st) ==
    IF pos > Len(files) THEN st
    ELSE UploadLoop(files, pos + 1, UploadOne(files[pos], pos, st))

\* upload_file (main.py:49-98)
upload_file(s, n, files) ==
    IF files = <<>> \/ files[1].filename = NoName
    THEN [store |-> s, issued |-> n, documents |-> <<>>, errors |-> <<>>, status |-> 400]
    ELSE UploadLoop(files, 1, [store |-> s, issued |-> n,
                               documents |-> <<>>, errors |-> <<>>])
            @@ [status |-> 200]

\* Where add_document is made to raise during an upload.
UploadFaults == {"none", "dump", "add"}

UploadText == <<"a", "b", SP, "c", NL, "d">>

\* The files of a request: the name, what extraction does (PDF only), and where
\* add_document raises (only when it is reached).
UploadFiles ==
    { f \in [filename : UploadNames, extract : {"ok", "fail"}, text : {UploadText},
             fault : UploadFaults] :
        LET reached == f.filename # NoName /\ allowed_file(f.filename)
                       /\ secure_filename(f.filename).ext # "none"
        IN /\ (f.extract = "fail" => reached /\ Lower(f.filename.ext) = "pdf")
           /\ (f.fault # "none" => reached /\ f.extract = "ok") }

NeedsId(f) == f.filename # NoName /\ allowed_file(f.filename)

Pending == [documents |-> <<>>, errors |-> <<>>, status |-> 0]

UploadInit ==
    /\ StoreInit
    /\ ConcIdle
    /\ UploadIdle
    /\ QueryIdle

\* The client starts a new request once the last one is answered.
NewUpload ==
    /\ upl.status # 0
    /\ batch' = <<>>
    /\ upl' = Pending
    /\ lastOp' = "new_upload"
    /\ UNCHANGED <<store, issued, up, added, faulted, restarted, readBack, listed, concVars, queryVars, histVars>>

\* The client attaches a file to the request. Every allowed file will be given a
\* fresh id, and the model has NumDocs of them.
AttachFile ==
    \E f \in UploadFiles :
        /\ upl.status = 0
        /\ Len(batch) < MaxBatch
        /\ Cardinality({i \in 1..Len(batch) : NeedsId(batch[i])})
              + (IF NeedsId(f) THEN 1 ELSE 0) + issued <= NumDocs
        /\ batch' = Append(batch, f)
        /\ lastOp' = "attach_file"
        /\ UNCHANGED <<store, issued, upl, up, added, faulted, restarted, readBack,
                       listed, concVars, queryVars, histVars>>

\* POST /upload: the handler runs on the files of the request.
UploadFile ==
    LET r == upload_file(store, issued, batch) IN
    /\ up
    /\ upl.status = 0
    /\ store' = r.store
    /\ issued' = r.issued
    /\ upl' = [documents |-> r.documents, errors |-> r.errors, status |-> r.status]
    /\ lastOp' = "upload_file"
    /\ UNCHANGED <<batch, up, added, faulted, restarted, readBack, listed, concVars, queryVars, histVars>>

\* GET /documents between uploads
UploadGetAllDocuments ==
    LET r == get_all_documents(store) IN
    /\ up
    /\ store' = r.store
    /\ listed' = [op |-> "get_all_documents", docs |-> {m.id : m \in r.result}]
    /\ lastOp' = "get_all_documents"
    /\ UNCHANGED <<up, added, faulted, restarted, readBack, concVars, uploadVars, queryVars, histVars>>

UploadNext ==
    \/ NewUpload
    \/ AttachFile
    \/ UploadFile
    \/ UploadGetAllDocuments

SpecUpload == UploadInit /\ [][UploadNext]_vars

----
\* Python values as the query stages see them. A value is its type t, its length n
\* (of a str, list or dict) and a tag saying what it is.

Str(n, what) == [t |-> "str", n |-> n, what |-> what]
ListVal(n) == [t |-> "list", n |-> n, what |-> "list"]
DictVal(n) == [t |-> "dict", n |-> n, what |-> "dict"]
Null == [t |-> "null", n |-> 0, what |-> "null"]
\* A key that the dict does not hold.
Missing == [t |-> "missing", n |-> 0, what |-> "missing"]

\* len(v) raises TypeError unless v is sized.
Sized(v) == v.t \in {"str", "list", "dict"}
\* v[:k] raises on a dict (a slice is no key) and on None.
Sliceable(v) == v.t \in {"str", "list"}
\* v[:k] + "..." needs a str.
Min(a, b) == IF a < b THEN a ELSE b

\* An exception: its message, as the substrings the handlers look for in str(e)
\* (cs) and in str(e).lower() (ci).
ConnectionError ==
    [text |-> "Connection error.", cs |-> {"Connection"}, ci |-> {"connection"}]
TimeoutError == [text |-> "Request timed out.", cs |-> {}, ci |-> {}]
RateLimitError ==
    [text |-> "Error code: 429 - rate_limit_exceeded", cs |-> {"rate_limit"},
     ci |-> {"rate_limit"}]
AuthError ==
    [text |-> "Error code: 401 - Invalid API Key", cs |-> {"401"},
     ci |-> {"api key", "401"}]
ServerError == [text |-> "Error code: 500", cs |-> {}, ci |-> {}]
\* Raised by the interpreter: len() of None, a slice of a dict, .get on a list,
\* iterating a number.
TypeError == [text |-> "TypeError", cs |-> {}, ci |-> {}]

ApiErrors == {ConnectionError, TimeoutError, RateLimitError, ServerError}

\* The error key of a returned dict.
ErrVal(e) == [t |-> "str", n |-> 1, what |-> "error", msg |-> e]

\* A reply of the generative model (groq_client.chat.completions.create and
\* response.choices[0].message.content): an exception, or a payload. A payload is
\* empty (None or ""), or text of n characters with json.loads's result for the
\* whole text (parse; "error": JSONDecodeError) and for the match of the pattern
\* ({.*}) in it (embedded; "absent": no match).
Raise(e) == [kind |-> "raise", error |-> e]
EmptyPayload == [kind |-> "content", empty |-> TRUE, n |-> 0]
Json(v) == [kind |-> "content", empty |-> FALSE, n |-> 40, parse |-> [ok |-> TRUE, v |-> v]]
Prose(n) ==
    [kind |-> "content", empty |-> FALSE, n |-> n, parse |-> [ok |-> FALSE],
     embedded |-> [found |-> FALSE]]
ProseWithJson(n, v) ==
    [kind |-> "content", empty |-> FALSE, n |-> n, parse |-> [ok |-> FALSE],
     embedded |-> [found |-> TRUE, ok |-> TRUE, v |-> v]]
ProseWithBraces(n) ==
    [kind |-> "content", empty |-> FALSE, n |-> n, parse |-> [ok |-> FALSE],
     embedded |-> [found |-> TRUE, ok |-> FALSE]]

\* A JSON object with the given members, and the empty object.
Obj(d) == [t |-> "dict", n |-> Cardinality(DOMAIN d), what |-> "object", d |-> d]
EmptyObj == [t |-> "dict", n |-> 0, what |-> "object", d |-> EmptyDict]

\* d.get(key, default) on a JSON object.
ObjGet(o, key, default) == IF key \in DOMAIN o.d THEN o.d[key] ELSE default

\* json.loads(response_text if response_text else "{}") (llm_service.py:188, 354;
\* theme_identifier.py:94)
LoadsPayload(p) ==
    IF p.empty THEN [ok |-> TRUE, v |-> EmptyObj] ELSE p.parse

----
\* The per-document QA stage (llm_service.py:116-258).

PREVIEW_CHARS == 500
PARSE_ERROR_CHARS == 100

\* A recovery that does not look for an embedded payload.
RecoverAnswer_NoSearch(p) ==
    Obj([response |-> Str(p.n, "raw"), citations |-> ListVal(0)])

\* llm_service.py:189-211: the recovery from a JSONDecodeError.
RecoverAnswer(p) ==
    IF ~p.empty THEN
        IF p.embedded.found THEN
            IF p.embedded.ok THEN p.embedded.v
            ELSE Obj([response |-> Str(27 + Min(p.n, PARSE_ERROR_CHARS), "parse_error"),
                      citations |-> ListVal(0)])
        ELSE Obj([response |-> Str(p.n, "raw"), citations |-> ListVal(0)])
    ELSE Obj([response |-> Str(21, "no_response"), citations |-> ListVal(0)])

\* An except branch whose preview is the whole document text.
AnswerOnError_WholeText(e, doc_text, doc_metadata) ==
    [id |-> doc_metadata.id, filename |-> doc_metadata.filename,
     response |-> Str(87 + Len(doc_text), "preview") @@ [preview |-> doc_text],
     citations |-> ListVal(1),
     error |-> ErrVal([text |-> "Connection issue - displaying document preview only",
                       cs |-> {"Connection"}, ci |-> {"connection"}])]

\* llm_service.py:221-258: the except branch.
AnswerOnError(e, doc_text, doc_metadata) ==
    IF "Connection" \in e.cs \/ "timeout" \in e.ci \/ "network" \in e.ci THEN
        LET doc_preview == IF Len(doc_text) > PREVIEW_CHARS
                           THEN SubSeq(doc_text, 1, PREVIEW_CHARS) \o <<".", ".", ".">>
                           ELSE doc_text
        IN [id |-> doc_metadata.id, filename |-> doc_metadata.filename,
            response |-> Str(87 + Len(doc_preview), "preview") @@ [preview |-> doc_preview],
            citations |-> ListVal(1),
            error |-> ErrVal([text |-> "Connection issue - displaying document preview only",
                              cs |-> {"Connection"}, ci |-> {"connection"}])]
    ELSE IF "rate_limit" \in e.ci \/ "too large" \in e.ci THEN
        [id |-> doc_metadata.id, filename |-> doc_metadata.filename,
         response |-> Str(120, "too_large"), citations |-> ListVal(0), error |-> ErrVal(e)]
    ELSE
        [id |-> doc_metadata.id, filename |-> doc_metadata.filename,
         response |-> Str(25, "error"), citations |-> ListVal(0), error |-> ErrVal(e)]

\* query_document_with_llm (llm_service.py:116-258)
query_document_with_llm(doc_text, doc_metadata, reply) ==
    IF reply.kind = "raise" THEN
        [raised |-> FALSE, value |-> AnswerOnError(reply.error, doc_text, doc_metadata)]
    ELSE
        LET loaded == LoadsPayload(reply)
            response_data == IF loaded.ok THEN loaded.v ELSE RecoverAnswer(reply)
        IN IF response_data.t = "dict" THEN
               [raised |-> FALSE,
                value |-> [id |-> doc_metadata.id, filename |-> doc_metadata.filename,
                           response |-> ObjGet(response_data, "response", Str(0, "default")),
                           citations |-> ObjGet(response_data, "citations", ListVal(0)),
                           error |-> Missing]]
           ELSE \* line 217: a list, a number or None has no .get
               [raised |-> FALSE,
                value |-> AnswerOnError(TypeError, doc_text, doc_metadata)]

\* vector_store.py:306-310: the indexed chunks of the document joined by a space.
RECURSIVE JoinChunks(_, _, _)
JoinChunks(index, d, i) ==
    IF i \notin IndexIdsOf(index, d) THEN <<>>
    ELSE LET c == CHOOSE x \in index : x.doc = d /\ x.idx = i
             rest == JoinChunks(index, d, i + 1)
         IN IF (i + 1) \in IndexIdsOf(index, d) THEN c.text \o <<SP>> \o rest ELSE c.text

\* get_document_text (vector_store.py:277-315): the artifact named by
\* processed_path, else the joined chunks.
get_document_text(s, doc_id) ==
    LET m == get_document_by_id(s, doc_id)
        found == m.result # {}
        meta == CHOOSE e \in m.result : TRUE
    IN IF found /\ meta.processed_path # 0 /\ meta.processed_path \in DOMAIN s.processed
       THEN [store |-> m.store, text |-> s.processed[meta.processed_path]]
       ELSE [store |-> m.store, text |-> JoinChunks(s.index, doc_id, 0)]

\* An element of documentIds that is a JSON array or object: `doc_id in
\* _documents_metadata` (vector_store.py:342) raises TypeError: unhashable type.
UnhashableId == 0

\* generate_document_responses, lines 65-107: one iteration of the loop over the
\* ids. responses is what the iteration appends (nothing for a skipped document).
\* An exception of the body is caught at line 94, and the handler looks the
\* document up again (line 98): what get_document_by_id raised in the body it raises
\* again in the handler, and that leaves the loop.
AnswerDocument(s, doc_id, reply) ==
    LET m == get_document_by_id(s, doc_id)
        t == get_document_text(m.store, doc_id)
        doc_metadata == CHOOSE e \in m.result : TRUE
    IN IF doc_id = UnhashableId THEN
           [store |-> m.store, raised |-> TRUE, responses |-> <<>>]
       ELSE IF m.result = {} THEN
           [store |-> m.store, raised |-> FALSE, responses |-> <<>>]
       ELSE IF t.text = <<>> THEN
           [store |-> t.store, raised |-> FALSE, responses |-> <<>>]
       ELSE [store |-> t.store, raised |-> FALSE,
             responses |-> <<query_document_with_llm(t.text, doc_metadata, reply).value>>]

\* Answers put in front of the list.
AppendResponses_Front(document_responses, new) == new \o document_responses

\* llm_service.py:91: document_responses.append(response_with_citations)
AppendResponses(document_responses, new) == document_responses \o new

\* generate_document_responses, lines 55-61 and 65: the ids the loop runs over. The
\* request's documentIds, when given, is used as it is: iterating a value that is no
\* list raises TypeError, which lines 111-113 re-raise.
SelectDocuments(s, selected) ==
    IF selected.kind = "list" /\ selected.ids # <<>> THEN
        [store |-> s, raised |-> FALSE, ids |-> selected.ids]
    ELSE IF selected.kind = "number" THEN
        [store |-> s, raised |-> TRUE, ids |-> <<>>]
    ELSE LET all == get_all_documents(s)
             \* dict order: the order of insertion, which is the order of the ids here
             ordered == [i \in 1..Cardinality(all.result) |->
                            CHOOSE d \in {m.id : m \in all.result} :
                                Cardinality({m \in all.result : m.id < d}) = i - 1]
         IN [store |-> all.store, raised |-> FALSE, ids |-> ordered]

----
\* Theme identification (theme_identifier.py:18-139).

MAX_THEME_RESPONSE_CHARS == 500

\* A theme object of a model reply: whether it carries a non-empty id and whether
\* its supporting_docs is a list of strings.
Theme(has_id, docs_are_strings) ==
    [t |-> "dict", n |-> 4, what |-> "theme", id |-> IF has_id THEN "model" ELSE "none",
     name |-> "model", supporting_docs |-> [strings |-> docs_are_strings, ids |-> <<>>]]
\* A JSON list of the given items.
ListOf(items) == [t |-> "list", n |-> Len(items), what |-> "items", items |-> items]

\* theme_identifier.py:33-40 and llm_service.py:278-290: the digest of the answers.
\* len() needs a sized response, and the truncation (a slice and a concatenation
\* with a str) needs a str.
DigestRaises(document_responses, max_response_chars, first) ==
    \E i \in 1..Min(Len(document_responses), first) :
        LET response_text == document_responses[i].response
        IN \/ ~Sized(response_text)
           \/ response_text.n > max_response_chars /\ response_text.t # "str"

\* theme_identifier.py:93-108: the parsed reply.
ThemesData(p) ==
    LET loaded == LoadsPayload(p)
    IN IF loaded.ok THEN loaded.v
       ELSE IF ~p.empty /\ p.embedded.found /\ p.embedded.ok THEN p.embedded.v
       ELSE Obj([themes |-> ListOf(<<>>)])

\* theme_identifier.py:111: `"themes" in themes_data and themes_data["themes"]`.
\* The test raises on None; on a list it looks for an element.
HasThemesRaises(themes_data) == themes_data.t \notin {"dict", "list", "str"}
HasThemes(themes_data) ==
    /\ themes_data.t = "dict"
    /\ "themes" \in DOMAIN themes_data.d
    /\ themes_data.d.themes.n > 0

\* theme_identifier.py:113-115: the loop that gives every theme an id. It needs a
\* list (or dict) to run over and a dict in every item.
AssignIdsRaises(themes) ==
    \/ themes.t # "list"
    \/ \E i \in 1..Len(themes.items) : themes.items[i].t # "dict"
AssignIds(themes) ==
    [i \in 1..Len(themes.items) |->
        IF themes.items[i].id = "none"
        THEN [themes.items[i] EXCEPT !.id = "uuid"]
        ELSE themes.items[i]]

\* No fallback theme is made.
FallbackTheme_None(document_responses) == <<>>

\* An id that is the empty string or None.
NoId == 0

\* A fallback theme that lists the id of every answer.
FallbackTheme_AllIds(document_responses) ==
    <<[t |-> "dict", n |-> 4, what |-> "theme", id |-> "uuid", name |-> "Document Analysis",
       supporting_docs |->
           [strings |-> TRUE,
            ids |-> [i \in 1..Len(document_responses) |-> document_responses[i].id]]]>>

\* theme_identifier.py:125-131: one theme, supported by the answers that have an id.
FallbackTheme(document_responses) ==
    <<[t |-> "dict", n |-> 4, what |-> "theme", id |-> "uuid", name |-> "Document Analysis",
       supporting_docs |->
           [strings |-> TRUE,
            ids |-> SelectSeq([i \in 1..Len(document_responses) |->
                                  document_responses[i].id],
                              LAMBDA id : id # NoId)]]>>

\* identify_themes (theme_identifier.py:18-139). caught: the except of line 136 ran;
\* calls: the number of calls of the model made (line 80).
identify_themes(document_responses, reply) ==
    LET themes_data == ThemesData(reply)
        failed == [raised |-> FALSE, caught |-> TRUE, themes |-> <<>>, calls |-> 1]
    IN IF DigestRaises(document_responses, MAX_THEME_RESPONSE_CHARS,
                       Len(document_responses))
       THEN [failed EXCEPT !.calls = 0]
       ELSE IF reply.kind = "raise" THEN failed
       ELSE IF HasThemesRaises(themes_data) THEN failed
       ELSE IF HasThemes(themes_data) THEN
           IF AssignIdsRaises(themes_data.d.themes) THEN failed
           ELSE [raised |-> FALSE, caught |-> FALSE,
                 themes |-> AssignIds(themes_data.d.themes), calls |-> 1]
       ELSE [raised |-> FALSE, caught |-> FALSE,
             themes |-> FallbackTheme(document_responses), calls |-> 1]

----
\* Synthesis (llm_service.py:261-391).

MAX_SYNTH_RESPONSE_CHARS == 300
MAX_SYNTH_DOCS == 5
SUMMARY_CHARS == 200

\* llm_service.py:293-297: ', '.join(theme.get('supporting_docs', [])).
ThemesSummaryRaises(themes) ==
    \E i \in 1..Len(themes) : ~themes[i].supporting_docs.strings

\* A parse that recovers an embedded payload as the QA stage does.
SynthesisData_WithSearch(p) ==
    LET loaded == LoadsPayload(p)
    IN IF loaded.ok THEN loaded.v
       ELSE IF p.embedded.found /\ p.embedded.ok THEN p.embedded.v
       ELSE Obj([synthesized_response |-> Str(p.n, "raw"), themes_analysis |-> ListOf(<<>>)])

\* llm_service.py:352-361
SynthesisData(p) ==
    LET loaded == LoadsPayload(p)
    IN IF loaded.ok THEN loaded.v
       ELSE Obj([synthesized_response |-> Str(p.n, "raw"), themes_analysis |-> ListOf(<<>>)])

\* llm_service.py:377-380: one bullet per answer, of doc.get('response', 'No
\* response')[:200].
SummaryRaises(document_responses) ==
    \E i \in 1..Len(document_responses) : ~Sliceable(document_responses[i].response)
RECURSIVE SummaryChars(_)
SummaryChars(document_responses) ==
    IF document_responses = <<>> THEN 0
    ELSE 10 + Min(Head(document_responses).response.n, SUMMARY_CHARS)
         + SummaryChars(Tail(document_responses))

\* llm_service.py:365-391: the except branch, for the exception e of the try block.
\* What the branch raises itself leaves the function.
SynthesisOnError(e, document_responses) ==
    IF "Connection" \in e.cs THEN
        IF SummaryRaises(document_responses) THEN [raised |-> TRUE, error |-> TypeError]
        ELSE [raised |-> FALSE,
              value |-> Obj([synthesized_response |->
                                 Str(110 + SummaryChars(document_responses), "summary")
                                 @@ [bullets |-> Len(document_responses)],
                             themes_analysis |-> ListOf(<<>>),
                             error |-> ErrVal(e)])]
    ELSE [raised |-> FALSE,
          value |-> Obj([synthesized_response |-> Str(27, "error"),
                         themes_analysis |-> ListOf(<<>>),
                         error |-> ErrVal(e)])]

\* synthesize_themes (llm_service.py:261-391). calls: the number of calls of the
\* model made (line 340); the except branch makes none.
synthesize_themes(themes, document_responses, reply) ==
    IF DigestRaises(document_responses, MAX_SYNTH_RESPONSE_CHARS, MAX_SYNTH_DOCS)
    THEN SynthesisOnError(TypeError, document_responses) @@ [calls |-> 0]
    ELSE IF ThemesSummaryRaises(themes)
    THEN SynthesisOnError(TypeError, document_responses) @@ [calls |-> 0]
    ELSE IF reply.kind = "raise"
    THEN SynthesisOnError(reply.error, document_responses) @@ [calls |-> 1]
    ELSE [raised |-> FALSE, value |-> SynthesisData(reply), calls |-> 1]

\* test_groq_connection (llm_service.py:24-42)
test_groq_connection(reply) ==
    IF reply.kind # "raise" THEN [ok |-> TRUE, msg |-> "Connection successful"]
    ELSE IF "auth" \in reply.error.ci \/ "api key" \in reply.error.ci
            \/ "401" \in reply.error.cs
    THEN [ok |-> FALSE, msg |-> "Authentication error: Please check your GROQ_API_KEY"]
    ELSE IF "timeout" \in reply.error.ci \/ "connection" \in reply.error.ci
    THEN [ok |-> FALSE, msg |-> "Connection timeout: Unable to reach Groq API"]
    ELSE [ok |-> FALSE, msg |-> "API error"]

----
\* The replies of the model that the stages are run against.

GoodAnswer == Obj([response |-> Str(5, "answer"), citations |-> ListVal(1)])

QAReplies ==
    { Json(GoodAnswer),
      Json(Obj([response |-> Str(MAX_THEME_RESPONSE_CHARS + 100, "answer"),
                citations |-> ListVal(1)])),
      Json(Obj([response |-> DictVal(1), citations |-> ListVal(0)])),
      Json(Obj([response |-> Null, citations |-> ListVal(0)])),
      Json(EmptyObj),
      Json(ListVal(0)),
      Prose(30),
      ProseWithJson(30, GoodAnswer),
      ProseWithBraces(PARSE_ERROR_CHARS + 50),
      EmptyPayload }
    \cup {Raise(e) : e \in ApiErrors}

GoodThemes == Obj([themes |-> ListOf(<<Theme(TRUE, TRUE), Theme(FALSE, TRUE)>>)])

ThemeReplies ==
    { Json(GoodThemes),
      Json(Obj([themes |-> ListOf(<<Theme(TRUE, FALSE)>>)])),
      Json(Obj([themes |-> ListOf(<<>>)])),
      Json(Obj([themes |-> ListOf(<<Str(3, "text")>>)])),
      Json(Obj([themes |-> Str(3, "text")])),
      Json(EmptyObj),
      Json(ListVal(0)),
      Json(Null),
      Prose(30),
      ProseWithJson(30, GoodThemes),
      ProseWithBraces(30),
      EmptyPayload }
    \cup {Raise(e) : e \in {ConnectionError, ServerError}}

GoodSynthesis ==
    Obj([synthesized_response |-> Str(50, "narrative"), themes_analysis |-> ListVal(1)])

SynthesisReplies ==
    { Json(GoodSynthesis),
      Json(EmptyObj),
      Json(ListVal(0)),
      Prose(30),
      ProseWithJson(30, GoodSynthesis),
      EmptyPayload }
    \cup {Raise(e) : e \in {ConnectionError, TimeoutError}}

ConnectionReplies == {Prose(5)} \cup {Raise(e) : e \in {ConnectionError, AuthError, ServerError}}

----
\* The stage functions called on their own. The answers given to theme
\* identification and synthesis are answers that the QA stage returns, one per
\* document; the themes given to synthesis are themes that theme identification
\* returns for those answers.

LongText == [i \in 1..(PREVIEW_CHARS + 1) |-> "x"]
StageTexts == (SampleTexts \ {<<>>}) \cup {LongText}

StageMeta(d) ==
    [id |-> d, filename |-> [stem |-> "a", ext |-> "txt"], page_count |-> 1,
     processed_path |-> d]

\* The answers for document d, and one for a document whose metadata has no id.
AnswersOf(d) ==
    {query_document_with_llm(<<"a", "b">>, StageMeta(d), reply).value : reply \in QAReplies}
    \cup {query_document_with_llm(<<"a", "b">>, [StageMeta(d) EXCEPT !.id = NoId],
                                  Json(GoodAnswer)).value}

\* The lists of answers for the documents 1..k.
RECURSIVE AnswerListsOf(_)
AnswerListsOf(k) ==
    IF k = 0 THEN {<<>>}
    ELSE {Append(l, a) : l \in AnswerListsOf(k - 1), a \in AnswersOf(k)}

AnswerLists == UNION {AnswerListsOf(k) : k \in 0..NumDocs}

ThemesOf(answers) == {identify_themes(answers, reply).themes : reply \in ThemeReplies}

\* query_document_with_llm is called (llm_service.py:85-89).
CallAnswer ==
    /\ call = NoCall
    /\ \E text \in StageTexts, d \in DocIds, reply \in QAReplies :
           call' = [fn |-> "query_document_with_llm", text |-> text, reply |-> reply,
                    out |-> query_document_with_llm(text, StageMeta(d), reply)]
    /\ UNCHANGED <<storeVars, concVars, uploadVars, q, histVars>>

\* identify_themes is called (main.py:141, api/routes.py:95).
CallIdentify ==
    /\ call = NoCall
    /\ \E answers \in AnswerLists, reply \in ThemeReplies :
           call' = [fn |-> "identify_themes", answers |-> answers, reply |-> reply,
                    out |-> identify_themes(answers, reply)]
    /\ UNCHANGED <<storeVars, concVars, uploadVars, q, histVars>>

\* synthesize_themes is called (main.py:144, api/routes.py:98).
CallSynthesize ==
    /\ call = NoCall
    /\ \E answers \in AnswerLists, reply \in SynthesisReplies :
           \E themes \in ThemesOf(answers) :
               call' = [fn |-> "synthesize_themes", answers |-> answers,
                        themes |-> themes, reply |-> reply,
                        out |-> synthesize_themes(themes, answers, reply)]
    /\ UNCHANGED <<storeVars, concVars, uploadVars, q, histVars>>

\* The caller takes the result.
Return ==
    /\ call # NoCall
    /\ call' = NoCall
    /\ UNCHANGED <<storeVars, concVars, uploadVars, q, histVars>>

StagesInit == StoreInit /\ ConcIdle /\ UploadIdle /\ QueryIdle /\ QueryIdle

StagesNext == CallAnswer \/ CallIdentify \/ CallSynthesize \/ Return

SpecStages == StagesInit /\ [][StagesNext]_vars

----
\* The query endpoint: POST /query of main.py (110-162) and of the blueprint
\* api/routes.py (81-108), one stage call per step.

\* The store after the files 1..k have been uploaded as text files with the given
\* texts (main.py:78-85).
RECURSIVE Ingested(_, _)
Ingested(k, texts) ==
    IF k = 0 THEN EmptyStore
    ELSE LET s == Ingested(k - 1, texts)
             f == [filename |-> [stem |-> "a", ext |-> "txt"], extract |-> "ok",
                   text |-> texts[k], fault |-> "none"]
             p == process_document(s, f, k, f.filename)
         IN add_document(p.store, p.details, "none").store

QueryStores ==
    {Ingested(k, texts) : k \in 0..NumDocs, texts \in [1..NumDocs -> SampleTexts]}

\* An id that no document has.
UnknownId == NumDocs + 1

\* documentIds of the request: absent (or empty), a number, or a list that names
\* each of its elements once.
SelectedLists ==
    UNION { {l \in [1..k -> DocIds \cup {UnknownId, UnhashableId}] :
                \A i, j \in 1..k : l[i] = l[j] => i = j} : k \in 1..NumDocs }

Selections ==
    {[kind |-> "absent", ids |-> <<>>], [kind |-> "number", ids |-> <<>>]}
    \cup {[kind |-> "list", ids |-> l] : l \in SelectedLists}

\* main.py:152-162 and api/routes.py:106-108: the handler's except branch, for an
\* exception e raised by the stage named by from.
QueryFailed(e, from) ==
    [q EXCEPT !.pc = "done", !.raised_in = from, !.stages = Append(@, "Failed"),
              !.status = IF q.endpoint = "main" THEN 200 ELSE 500,
              !.body = IF q.endpoint = "main"
                          /\ ("api key" \in e.ci \/ "authentication" \in e.ci)
                       THEN [error |-> ErrVal(e), hint |-> Str(90, "hint")]
                       ELSE [error |-> ErrVal(e)]]

queryFrame == <<up, added, faulted, restarted, readBack, lastOp, listed, concVars,
                uploadVars, call, histVars>>

\* main.py:113-118, api/routes.py:84-89: the request arrives.
QueryReceive ==
    /\ q.pc = "idle"
    /\ \E endpoint \in {"main", "routes"}, has_query \in BOOLEAN, selected \in Selections :
           q' = IF has_query
                THEN [IdleQuery EXCEPT !.pc = "received", !.endpoint = endpoint,
                                       !.has_query = TRUE, !.selected = selected,
                                       !.stages = <<"Received">>]
                ELSE [IdleQuery EXCEPT !.pc = "done", !.endpoint = endpoint,
                                       !.status = 400,
                                       !.body = [error |-> Str(17, "no_query")]]
    /\ UNCHANGED <<store, queryFrame>>

\* main.py:121-135: the connection test, which only main.py's handler makes.
QueryTestConnection ==
    /\ q.pc = "received"
    /\ q.endpoint = "main"
    /\ \E reply \in ConnectionReplies :
           LET r == test_groq_connection(reply) IN
           q' = IF r.ok THEN [q EXCEPT !.pc = "tested"]
                ELSE [q EXCEPT !.pc = "done", !.status = 200,
                          !.stages = Append(@, "Completed"),
                          !.body = [error |-> Str(22, r.msg),
                                    document_responses |-> <<>>,
                                    themes |-> <<>>,
                                    synthesized_response |->
                                        Obj([synthesized_response |-> Str(60, r.msg),
                                             themes_analysis |-> ListOf(<<>>)])]]
    /\ UNCHANGED <<store, queryFrame>>

\* llm_service.py:55-63: generate_document_responses picks the documents.
QuerySelect ==
    /\ \/ q.pc = "received" /\ q.endpoint = "routes"
       \/ q.pc = "tested"
    /\ LET r == SelectDocuments(store, q.selected) IN
       /\ store' = r.store
       /\ q' = IF r.raised THEN QueryFailed(TypeError, "generate_document_responses")
               ELSE [q EXCEPT !.pc = "answering", !.queried = r.ids, !.todo = r.ids,
                              !.stages = Append(@, "PerDocumentAnswering")]
    /\ UNCHANGED queryFrame

\* llm_service.py:65-107: generate_document_responses answers the next document.
QueryAnswerDocument ==
    /\ q.pc = "answering"
    /\ q.todo # <<>>
    /\ \E reply \in QAReplies :
           LET r == AnswerDocument(store, Head(q.todo), reply) IN
           /\ store' = r.store
           /\ q' = IF r.raised THEN QueryFailed(TypeError, "generate_document_responses")
                   ELSE [q EXCEPT !.todo = Tail(@),
                                  !.document_responses = AppendResponses(@, r.responses)]
    /\ UNCHANGED queryFrame

\* main.py:141, api/routes.py:95: generate_document_responses has returned and
\* identify_themes runs.
QueryIdentifyThemes ==
    /\ q.pc = "answering"
    /\ q.todo = <<>>
    /\ \E reply \in ThemeReplies :
           LET r == identify_themes(q.document_responses, reply) IN
           q' = IF r.raised THEN QueryFailed(TypeError, "identify_themes")
                ELSE [q EXCEPT !.pc = "synthesis", !.themes = r.themes,
                               !.stages = Append(@, "ThemeIdentification")]
    /\ UNCHANGED <<store, queryFrame>>

\* main.py:144-150, api/routes.py:98-104: synthesize_themes runs and the response
\* is built.
QuerySynthesize ==
    /\ q.pc = "synthesis"
    /\ \E reply \in SynthesisReplies :
           LET r == synthesize_themes(q.themes, q.document_responses, reply) IN
           q' = IF r.raised
                THEN [QueryFailed(r.error, "synthesize_themes")
                          EXCEPT !.stages = Append(q.stages, "Synthesis") \o <<"Failed">>]
                ELSE [q EXCEPT !.pc = "done", !.status = 200,
                               !.stages = @ \o <<"Synthesis", "Completed">>,
                               !.body = [document_responses |-> q.document_responses,
                                         themes |-> q.themes,
                                         synthesized_response |-> r.value]]
    /\ UNCHANGED <<store, queryFrame>>

\* The response is sent; the next request can arrive.
QueryReturn ==
    /\ q.pc = "done"
    /\ q' = IdleQuery
    /\ UNCHANGED <<store, queryFrame>>

QueryInit ==
    /\ store \in QueryStores
    /\ up = TRUE
    /\ added = {}
    /\ faulted = FALSE
    /\ restarted = FALSE
    /\ readBack = FALSE
    /\ lastOp = "init"
    /\ listed = NoResult
    /\ ConcIdle
    /\ UploadIdle
    /\ QueryIdle

QueryNext ==
    \/ QueryReceive
    \/ QueryTestConnection
    \/ QuerySelect
    \/ QueryAnswerDocument
    \/ QueryIdentifyThemes
    \/ QuerySynthesize
    \/ QueryReturn

SpecQuery == QueryInit /\ [][QueryNext]_vars

----
\* Claims about the vector store.

IndexedIds(s) == {c.doc : c \in s.index}

RegistryIds(s) == (DOMAIN s.meta) \cup (DOMAIN s.file.data)

\* C1: after any sequence of add_document calls, also ones that raise part-way,
\* the ids of the metadata registry (in memory or in the metadata file) are exactly
\* the ids that have a chunk in the index.
C1_MetadataAndChunksInLockstep == RegistryIds(store) = IndexedIds(store)

\* C9: after successful add_document calls and registry reads, then a restart,
\* get_all_documents returns an entry for every id that was added.
C9_AddedRecoverableAfterRestart ==
    (~faulted /\ restarted /\ lastOp = "get_all_documents") => added \subseteq listed.docs

C9_Witness ==
    /\ ~faulted
    /\ restarted
    /\ readBack
    /\ lastOp = "get_all_documents"
    /\ added = DocIds
    /\ listed.docs = DocIds

\* C10: once both concurrent add_document calls have completed, both documents
\* are in the in-memory registry and in the metadata file.
C10_NoLostUpdate ==
    (\A t \in Threads : t_pc[t] = "done") =>
        /\ Threads \subseteq DOMAIN store.meta
        /\ store.file.valid
        /\ Threads \subseteq DOMAIN store.file.data

\* Positions of the batch that a list of the response reports.
Reported(list) == {list[i].file : i \in 1..Len(list)}

\* C8: after a batch upload every file is in exactly one of the two lists; a file
\* reported in errors is neither in the index nor in the metadata registry, and a
\* file reported as uploaded is in both.
C8_BatchPartialSuccess ==
    (lastOp = "upload_file" /\ upl.status = 200) =>
        /\ Reported(upl.documents) \cup Reported(upl.errors) = 1..Len(batch)
        /\ Reported(upl.documents) \cap Reported(upl.errors) = {}
        /\ Len(upl.documents) + Len(upl.errors) = Len(batch)
        /\ \A i \in 1..Len(upl.errors) :
              /\ upl.errors[i].id \notin RegistryIds(store)
              /\ upl.errors[i].id \notin IndexedIds(store)
        /\ \A i \in 1..Len(upl.documents) :
              /\ upl.documents[i].id \in RegistryIds(store)
              /\ upl.documents[i].id \in IndexedIds(store)

----
\* Claims about the stage functions, checked under SpecStages.

\* The outcomes of the QA model call other than a valid JSON object.
FailureOutcome(reply) ==
    \/ reply.kind = "raise"
    \/ reply.empty
    \/ ~reply.parse.ok
    \/ reply.parse.v.t # "dict"

\* C3: query_document_with_llm never raises, and in every failure outcome of the
\* model call the returned answer has its error field set and a non-empty response
\* text.
C3_FailuresCarryErrorAndText ==
    call.fn = "query_document_with_llm" =>
        /\ ~call.out.raised
        /\ FailureOutcome(call.reply) =>
               /\ call.out.value.error # Missing
               /\ call.out.value.response.t = "str"
               /\ call.out.value.response.n > 0

\* C4: synthesize_themes never raises, for every list of themes, every list of
\* answers (also answers whose response is not a string) and every outcome of the
\* model call.
C4_SynthesizeNeverRaises ==
    call.fn = "synthesize_themes" => ~call.out.raised

\* C2 as stated: identify_themes never raises and returns at least one theme for
\* every list of answers and every outcome of the model call.
C2_AlwaysAtLeastOneTheme ==
    call.fn = "identify_themes" =>
        /\ ~call.out.raised
        /\ Len(call.out.themes) >= 1

\* Every answer's response is a string.
TextAnswers(answers) == \A i \in 1..Len(answers) : answers[i].response.t = "str"

\* A JSON value that is an object whose themes are absent, empty or a list of
\* objects.
ThemesObject(v) ==
    /\ v.t = "dict"
    /\ \/ "themes" \notin DOMAIN v.d
       \/ v.d.themes.n = 0
       \/ /\ v.d.themes.t = "list"
          /\ \A i \in 1..Len(v.d.themes.items) : v.d.themes.items[i].t = "dict"

\* The model call returned: themes, zero themes, an empty payload, or malformed
\* output in which no JSON text is found, or only JSON text that does not parse, or
\* a themes object.
ThemesReturned(reply) ==
    /\ reply.kind = "content"
    /\ \/ reply.empty
       \/ reply.parse.ok /\ ThemesObject(reply.parse.v)
       \/ /\ ~reply.parse.ok
          /\ \/ ~reply.embedded.found
             \/ ~reply.embedded.ok
             \/ ThemesObject(reply.embedded.v)

\* C2 (amended): identify_themes never raises; it returns at least one theme when
\* every answer's response is a string and the model call returns themes, zero
\* themes, malformed output or an empty payload; when the model call raises it
\* returns the empty sequence.
C2_ThemesUnlessCaughtFailure ==
    call.fn = "identify_themes" =>
        /\ ~call.out.raised
        /\ (TextAnswers(call.answers) /\ ThemesReturned(call.reply))
               => Len(call.out.themes) >= 1
        /\ call.reply.kind = "raise" => call.out.themes = <<>>

\* identify_themes has caught a raised API error and returned no theme.
C2_Witness ==
    /\ call.fn = "identify_themes"
    /\ call.reply = Raise(ConnectionError)
    /\ Len(call.answers) = NumDocs
    /\ TextAnswers(call.answers)
    /\ call.out.themes = <<>>

----
\* Claims about the query endpoint, checked under SpecQuery.

\* C5: a query-time failure while answering one document, in theme identification
\* or in synthesis never propagates to the handler; the only failure that
\* propagates out of the stage functions is a failure of the initial lookup of the
\* candidate documents.
C5_StageFailuresNeverPropagate ==
    q.has_query => q.raised_in \in {"none", "get_all_documents"}

StageOrder ==
    <<"Received", "PerDocumentAnswering", "ThemeIdentification", "Synthesis", "Completed">>

StagePosition(stage) == CHOOSE i \in 1..Len(StageOrder) : StageOrder[i] = stage

Entered(stage) == \E i \in 1..Len(q.stages) : q.stages[i] = stage

\* C6: the stages of a query are entered in the order Received,
\* PerDocumentAnswering, ThemeIdentification, Synthesis, Completed; theme
\* identification starts only when every document is answered, synthesis only
\* after theme identification, and every query that is answered has reached
\* Completed with document_responses, themes and synthesized_response in its
\* response; there is no terminal failure.
C6_StagesInOrderToCompleted ==
    q.has_query =>
        /\ \A i \in 1..Len(q.stages) : \E k \in 1..Len(StageOrder) : StageOrder[k] = q.stages[i]
        /\ \A i, j \in 1..Len(q.stages) :
               i < j => StagePosition(q.stages[i]) < StagePosition(q.stages[j])
        /\ Entered("ThemeIdentification") => Entered("PerDocumentAnswering") /\ q.todo = <<>>
        /\ Entered("Synthesis") => Entered("ThemeIdentification")
        /\ q.pc = "done" =>
               /\ q.stages[Len(q.stages)] = "Completed"
               /\ {"document_responses", "themes", "synthesized_response"}
                      \subseteq DOMAIN q.body

\* C7: every request that carries a query is answered with an HTTP success status
\* and a response object, also when a stage fails or raises.
C7_AlwaysHttpSuccess ==
    (q.pc = "done" /\ q.has_query) =>
        /\ q.status \in 200..299
        /\ DOMAIN q.body # {}

----
\* Re-ingestion.

\* The index entries of document d.
ChunksOf(s, d) == {x \in s.index : x.doc = d}

\* The number of documents get_all_documents reports.
DocumentCount(s) == Cardinality(get_all_documents(s).result)

\* C11: a call of add_document with an id and a content equal to those of the last
\* call for that id leaves the index entries of that id and the number of documents
\* that get_all_documents reports as they were.
C11_ReingestionIdempotent ==
    [][ (lastDoc'.id \in DOMAIN ingested /\ ingested[lastDoc'.id] = lastDoc')
            => /\ ChunksOf(store', lastDoc'.id) = ChunksOf(store, lastDoc'.id)
               /\ DocumentCount(store') = DocumentCount(store) ]_vars

\* A two-chunk document has been ingested a second time while another document is
\* in the store.
C11_Witness ==
    /\ lastOp = "ingest_same"
    /\ lastDoc.text = TwoParagraphs
    /\ Cardinality(ChunksOf(store, lastDoc.id)) = 2
    /\ DocumentCount(store) = 2

\* The index entries add_document builds from a document (vector_store.py:162-174).
ChunkEntries(doc) ==
    LET chunks == DocumentChunks(doc)
    IN {[doc |-> doc.id, idx |-> i - 1, text |-> chunks[i]] : i \in 1..Len(chunks)}

\* C12: after add_document has returned for an id, also an id that was ingested
\* before with another content, the index entries of that id are exactly the
\* chunks of the content of the last call.
C12_ReingestReplacesChunks ==
    \A d \in DOMAIN ingested : ChunksOf(store, d) = ChunkEntries(ingested[d])

----
\* Chunking.

\* The chunks without their overlap prefixes: chunk i > 1 starts with the last
\* overlap characters of chunk i - 1 (all of it when it is shorter).
StripOverlap(chunks, overlap) ==
    LET raw[i \in 1..Len(chunks)] ==
            IF i = 1 \/ overlap = 0 THEN chunks[i]
            ELSE SubSeq(chunks[i], Min(overlap, Len(raw[i - 1])) + 1, Len(chunks[i]))
    IN [i \in 1..Len(chunks) |-> raw[i]]

RECURSIVE Concat(_)
Concat(seqs) == IF seqs = <<>> THEN <<>> ELSE Head(seqs) \o Concat(Tail(seqs))

\* The words of a string: its maximal runs of characters other than space and newline.
Words(s) ==
    LET pieces == Concat([i \in 1..Len(StrSplit(s, NL)) |->
                             StrSplit(StrSplit(s, NL)[i], SP)])
    IN SelectSeq(pieces, LAMBDA w : w # <<>>)

\* The chunks of the last _split_text call, overlap prefixes removed.
Stripped == StripOverlap(call.out, call.overlap)

\* C13 as stated: the chunks, reassembled in order after removing each chunk's
\* overlap prefix, are the original text, separators and empty paragraphs included.
C13_ReassemblyIsText ==
    call.fn = "_split_text" => Concat(Stripped) = call.text

\* C13: the chunks, in order and after removing each chunk's overlap prefix, hold
\* the words of the original text, each once and in the text's order.
C13_ReassemblyKeepsWords ==
    call.fn = "_split_text" =>
        Concat([i \in 1..Len(Stripped) |-> Words(Stripped[i])]) = Words(call.text)

\* A text with a newline was split into chunks with overlap prefixes, and the
\* reassembled chunks are not the text.
C13_Witness ==
    /\ call.fn = "_split_text"
    /\ call.overlap > 0
    /\ Len(call.out) > 1
    /\ \E i \in 1..Len(call.text) : call.text[i] = NL
    /\ \E i \in 1..Len(call.text) : call.text[i] = SP
    /\ Concat(Stripped) # call.text

\* A string without space and newline.
IsWord(s) == \A i \in 1..Len(s) : s[i] \notin {SP, NL}

\* C14: of a non-empty text, every chunk without its overlap prefix is at most
\* chunk_size long or is one word, and every word of the text is a word of a chunk.
C14_ChunksBoundedWordsWhole ==
    (call.fn = "_split_text" /\ call.text # <<>>) =>
        /\ \A i \in 1..Len(Stripped) :
               Len(Stripped[i]) <= call.chunk_size \/ IsWord(Stripped[i])
        /\ \A k \in 1..Len(Words(call.text)) :
               \E i \in 1..Len(Stripped) :
                   \E j \in 1..Len(Words(Stripped[i])) :
                       Words(Stripped[i])[j] = Words(call.text)[k]

\* A one-paragraph text was split at its spaces: one chunk is a word longer than
\* chunk_size, another chunk fits chunk_size.
C14_Witness ==
    /\ call.fn = "_split_text"
    /\ call.overlap > 0
    /\ Len(Words(call.text)) > 1
    /\ \A i \in 1..Len(call.text) : call.text[i] # NL
    /\ \E i \in 1..Len(Stripped) : Len(Stripped[i]) > call.chunk_size
    /\ \E i \in 1..Len(Stripped) : Stripped[i] # <<>> /\ Len(Stripped[i]) <= call.chunk_size

\* The one chunk of a document without text: the empty string with chunk index 0.
EmptyChunk(d) == [doc |-> d, idx |-> 0, text |-> <<>>]

\* C15: _split_text of the empty text is the empty sequence for every chunk_size
\* and overlap, and add_document of a document without text hands exactly the one
\* empty chunk with index 0 to the index, which then holds it when the id is new,
\* and leaves exactly one registry entry for the id.
C15_EmptyTextOneChunk ==
    (lastOp # "init" /\ lastDoc.text = <<>>) =>
        /\ \A chunk_size \in SplitSizes \cup {CHUNK_SIZE} :
               \A overlap \in SplitOverlaps \cup {CHUNK_OVERLAP} :
                   split_text(lastDoc.text, chunk_size, overlap) = <<>>
        /\ ChunkEntries(lastDoc) = {EmptyChunk(lastDoc.id)}
        /\ EmptyChunk(lastDoc.id).idx \in IndexIdsOf(store.index, lastDoc.id)
        /\ lastOp = "ingest_new" => ChunksOf(store, lastDoc.id) = {EmptyChunk(lastDoc.id)}
        /\ Cardinality({e \in get_all_documents(store).result : e.id = lastDoc.id}) = 1

\* A document without text was added under a new id to a store that holds another
\* document.
C15_Witness ==
    /\ lastOp = "ingest_new"
    /\ lastDoc.text = <<>>
    /\ ChunksOf(store, lastDoc.id) = {EmptyChunk(lastDoc.id)}
    /\ DocumentCount(store) = 2

----
\* Claims about generate_document_responses.

\* The ids of a list of answers.
AnswerIds(document_responses) ==
    [i \in 1..Len(document_responses) |-> document_responses[i].id]

\* C17: every answer that generate_document_responses has collected has a
\* filename that is not empty and the id of a queried document, or has an error.
C17_AnswersNamedAndQueried ==
    \A i \in 1..Len(q.document_responses) :
        LET a == q.document_responses[i] IN
        \/ /\ a.filename # NoName
           /\ a.filename.stem # ""
           /\ \E j \in 1..Len(q.queried) : q.queried[j] = a.id
        \/ a.error # Missing

\* Of two queried documents one was answered by the model and one with an error
\* answer, after an id without a document was skipped or not.
C17_Witness ==
    /\ q.pc = "synthesis"
    /\ Len(q.document_responses) = 2
    /\ \E i, j \in 1..2 : /\ q.document_responses[i].error = Missing
                          /\ q.document_responses[j].error # Missing

RECURSIVE IsSubsequence(_, _)
IsSubsequence(a, b) ==
    IF a = <<>> THEN TRUE
    ELSE IF b = <<>> THEN FALSE
    ELSE IF Head(a) = Head(b) THEN IsSubsequence(Tail(a), Tail(b))
    ELSE IsSubsequence(a, Tail(b))

\* C18: the ids of the collected answers, in their order, are a subsequence of the
\* sequence of queried ids.
C18_AnswersInQueriedOrder ==
    IsSubsequence(AnswerIds(q.document_responses), q.queried)

\* Documents queried in an order that is not the order of ingestion were both
\* answered, one of them with an error answer.
C18_Witness ==
    /\ q.pc = "synthesis"
    /\ q.queried = <<2, 1>>
    /\ AnswerIds(q.document_responses) = <<2, 1>>
    /\ q.document_responses[1].error # Missing
    /\ q.document_responses[2].error = Missing

----
\* Claims about the fallback theme.

\* The number of themes the model's reply identifies.
IdentifiedThemes(reply) ==
    IF reply.kind = "raise" THEN 0
    ELSE LET themes_data == ThemesData(reply)
         IN IF HasThemes(themes_data) THEN themes_data.d.themes.n ELSE 0

\* The themes are the one fallback theme, supported by the answers that have an id.
IsFallbackFor(themes, document_responses) ==
    /\ Len(themes) = 1
    /\ themes[1].name = "Document Analysis"
    /\ {themes[1].supporting_docs.ids[i] : i \in 1..Len(themes[1].supporting_docs.ids)}
           = {document_responses[i].id : i \in 1..Len(document_responses)} \ {NoId}

\* C16 as stated: for the empty list of answers, and for every list of answers for
\* which the model identifies no theme, identify_themes returns the one fallback
\* theme, supported by the answers that have an id.
C16_FallbackForNoThemes ==
    (/\ call.fn = "identify_themes"
     /\ \/ call.answers = <<>>
        \/ call.reply.kind # "raise" /\ IdentifiedThemes(call.reply) = 0)
        => IsFallbackFor(call.out.themes, call.answers)

\* C16: when the model is called and replies with a JSON object or list that holds
\* no themes, with nothing, or with text that cannot be parsed, identify_themes
\* returns the one fallback theme, supported by the answers that have an id.
C16_FallbackForReplyWithoutThemes ==
    (/\ call.fn = "identify_themes"
     /\ call.out.calls = 1
     /\ call.reply.kind # "raise"
     /\ IdentifiedThemes(call.reply) = 0
     /\ ThemesData(call.reply).t \in {"dict", "list"})
        => IsFallbackFor(call.out.themes, call.answers)

\* The model's reply could not be parsed, for two answers of which one has no id.
C16_Witness ==
    /\ call.fn = "identify_themes"
    /\ call.reply = Prose(30)
    /\ Len(call.answers) = 2
    /\ call.answers[1].id = NoId
    /\ call.answers[2].id # NoId
    /\ IsFallbackFor(call.out.themes, call.answers)
    /\ Len(call.out.themes[1].supporting_docs.ids) = 1

----
\* Claims about the answers without the model.

\* llm_service.py:226: the messages that the QA stage takes for a connection issue.
IsConnectionIssue(e) == "Connection" \in e.cs \/ "timeout" \in e.ci \/ "network" \in e.ci

C20_ConnectionErrorSummary ==
    (/\ call.fn = "synthesize_themes"
     /\ call.out.calls = 1
     /\ call.reply.kind = "raise"
     /\ "Connection" \in call.reply.error.cs)
        => /\ ~call.out.raised
           /\ ObjGet(call.out.value, "error", Missing) # Missing
           /\ ObjGet(call.out.value, "themes_analysis", Missing) = ListOf(<<>>)
           /\ ObjGet(call.out.value, "synthesized_response", Missing).bullets
                  = Len(call.answers)

----
\* Claims of the third group.

\* C30: of a text with a paragraph that is not empty, no chunk that _split_text
\* returns is the empty string.
C30_NoEmptyChunk ==
    (/\ call.fn = "_split_text"
     /\ \E i \in 1..Len(StrSplit(call.text, NL)) : StrSplit(call.text, NL)[i] # <<>>)
        => \A i \in 1..Len(call.out) : call.out[i] # <<>>

\* A reply whose text json.loads rejects.
Malformed(reply) == reply.kind = "content" /\ ~reply.empty /\ ~reply.parse.ok

\* The reply holds a match of the pattern that parses.
HasEmbeddedPayload(reply) == reply.embedded.found /\ reply.embedded.ok

IsRawNarrative(value, reply) ==
    /\ value.t = "dict"
    /\ ObjGet(value, "synthesized_response", Missing) = Str(reply.n, "raw")
    /\ ObjGet(value, "themes_analysis", Missing) = ListOf(<<>>)

C29_SynthesisHasBothKeys ==
    (call.fn = "synthesize_themes" /\ ~call.out.raised) =>
        /\ call.out.value.t = "dict"
        /\ ObjGet(call.out.value, "synthesized_response", Missing).t = "str"
        /\ ObjGet(call.out.value, "themes_analysis", Missing).t = "list"

\* The step is a registry read: get_all_documents or get_document_by_id.
RegistryRead == lastOp' \in {"get_all_documents", "get_document_by_id"}

\* C27: a registry read leaves the in-memory registry as it was, neither reset nor
\* loaded again from the file, and after every add_document that returned the
\* metadata file holds the in-memory registry.
C27_RegistryHeldInMemory ==
    [][/\ (RegistryRead /\ store # store') => store'.meta = store.meta
       /\ (lastOp' = "add_document" /\ store # store') =>
              /\ store'.file.exists /\ store'.file.valid
              /\ store'.file.data = store'.meta]_vars

\* The reader and the writer have both finished.
ReadWriteDone == t_pc[Writer] = "done" /\ t_pc[Reader] = "done"

\* C28: whatever the interleaving of one get_all_documents with one add_document,
\* after both have finished the added document and every document persisted
\* before are in the in-memory registry and in the metadata file.
C28_ReadNeverLosesDocument ==
    ReadWriteDone =>
        /\ added \subseteq DOMAIN store.meta
        /\ store.file.exists /\ store.file.valid
        /\ added \subseteq DOMAIN store.file.data

\* The engine's binary is absent, or it cannot be invoked.
EngineUnavailable(env) == env.engine # "ok"

\* The PDF has no text layer and its pages can be rendered.
IsScannedPdf(file) ==
    /\ file.kind = "pdf"
    /\ ~file.primary_raises
    /\ NoText(PageTexts(file.primary, "primary"))
    /\ file.render_fail = 0

\* C21: when the engine's binary is absent or cannot be invoked, perform_ocr
\* returns the placeholder that names the image's basename, and process_document
\* of an image or of a scanned PDF returns, with the placeholders as its text.
C21_PlaceholderWithoutEngine ==
    /\ (call.fn = "perform_ocr" /\ EngineUnavailable(call.env))
           => call.out.text = Placeholder(call.image_path)
    /\ (call.fn = "process_document" /\ EngineUnavailable(call.env)
        /\ call.file.kind = "image")
           => /\ ~call.out.raised
              /\ call.out.details[1].text = <<Placeholder(ImagePath(0))>>
    /\ (call.fn = "process_document" /\ EngineUnavailable(call.env)
        /\ IsScannedPdf(call.file))
           => /\ ~call.out.raised
              /\ call.out.details[1].text =
                     [k \in 1..call.file.pages |-> Placeholder(ImagePath(k))]

\* The first library returned pages, none with text.
PrimaryBlank(file) == ~file.primary_raises /\ NoText(PageTexts(file.primary, "primary"))

\* The second library returned pages, none with text.
SecondaryBlank(file) ==
    ~file.secondary_raises /\ NoText(PageTexts(file.secondary, "secondary"))

\* Some stage of the run is the named one.
Ran(stages, stage) == \E i \in 1..Len(stages) : stages[i] = stage

\* The call failed with the extraction error, which carries its cause.
ExtractionFailed(out) ==
    /\ out.raised
    /\ Len(out.error) >= 2
    /\ out.error[1] = "Could not extract text from PDF"

\* C22 as stated: a PDF goes through the first library, then, when that raises or
\* yields only whitespace, the second, and recognition runs only after the second
\* has yielded no text either; a call that fails fails with the extraction error
\* and its cause.
C22_PrimarySecondaryThenOcr ==
    (call.fn = "process_document" /\ call.file.kind = "pdf") =>
        LET stages == call.out.stages IN
        /\ stages[1] = "primary"
        /\ (call.file.primary_raises \/ PrimaryBlank(call.file))
               => Len(stages) >= 2 /\ stages[2] = "secondary"
        /\ \A i \in 1..Len(stages) :
               stages[i] = "ocr" =>
                   i > 1 /\ stages[i - 1] = "secondary" /\ SecondaryBlank(call.file)
        /\ call.out.raised => ExtractionFailed(call.out)

\* C22: a PDF goes through the first library. When that yields only whitespace
\* recognition runs next, without the second library; the second library runs
\* when the first raised or that recognition failed, and recognition runs after it
\* when it yields no text. The call fails only after the second library ran, with
\* the extraction error and its cause.
C22_OcrAfterBlankPrimary ==
    (call.fn = "process_document" /\ call.file.kind = "pdf") =>
        LET stages == call.out.stages
            file == call.file
            ocr_fails == file.render_fail # 0
            fallback == file.primary_raises \/ (PrimaryBlank(file) /\ ocr_fails)
        IN /\ stages[1] = "primary"
           /\ PrimaryBlank(file) => Len(stages) >= 2 /\ stages[2] = "ocr"
           /\ Ran(stages, "secondary") <=> fallback
           /\ \A i \in 1..Len(stages) :
                  stages[i] = "secondary" =>
                      /\ \A j \in (i + 1)..Len(stages) : stages[j] = "ocr"
                      /\ (i < Len(stages)) <=> SecondaryBlank(file)
           /\ call.out.raised <=>
                  /\ fallback
                  /\ file.secondary_raises \/ (SecondaryBlank(file) /\ ocr_fails)
           /\ call.out.raised => ExtractionFailed(call.out)

\* The first library yielded only whitespace and recognition, run next, returned
\* the text of the pages: the second library was not asked.
C22_Witness ==
    /\ call.fn = "process_document"
    /\ call.file.kind = "pdf"
    /\ call.file.pages > 0
    /\ PrimaryBlank(call.file)
    /\ ~SecondaryBlank(call.file)
    /\ call.out.stages = <<"primary", "ocr">>
    /\ ~call.out.raised
    /\ Len(call.out.details[1].page_texts) = call.file.pages

\* C23: the details that process_document returns and the artifact it writes hold
\* as many page texts as page_count says, for every type of file; an image has one
\* page and one page text.
C23_PageTextsMatchPageCount ==
    (call.fn = "process_document" /\ ~call.out.raised) =>
        /\ Len(call.out.details[1].page_texts) = call.out.details[1].page_count
        /\ Len(call.out.artifact[1].page_texts) = call.out.artifact[1].page_count
        /\ call.file.kind = "image" =>
               /\ call.out.details[1].page_count = 1
               /\ Len(call.out.details[1].page_texts) = 1

\* In the log, the raster of a page is removed before another page's is created.
RastersOneAtATime(log) ==
    \A i, j \in 1..Len(log) :
        (/\ i < j
         /\ log[i].ev = "create" /\ log[i].f.kind = "raster"
         /\ log[j].ev = "create" /\ log[j].f.kind = "raster")
            => \E k \in (i + 1)..(j - 1) : log[k] = [ev |-> "remove", f |-> log[i].f]

\* C24: no file created for a recognition (a page's raster, the temporary image
\* and output of the engine's run) is left when the call is over, whether the
\* recognition succeeded or failed, and a page's raster is removed before the next
\* page's is created.
C24_TemporaryFilesRemoved ==
    /\ call.fn = "perform_ocr" => call.out.fs.files = {}
    /\ call.fn = "process_document" =>
           /\ call.out.fs.files = {}
           /\ RastersOneAtATime(call.out.fs.log)

====
